---- MODULE Spec2Model ----
(***************************************************************************)
(* NightPage server (supabase functions/server/index.tsx): the in-memory   *)
(* rate limiter, the HTML sanitizer, the bearer-token gate and the journal *)
(* routes over the key-value store; and the client's App, AuthPage,        *)
(* JournalSession and JournalHistory.                                      *)
(*                                                                         *)
(* The specifications share the variables:                                 *)
(*   SpecRL   the rate limiter (checkRateLimit) under a clock              *)
(*   Spec     the request router: journal, admin and AI-prompt routes      *)
(*   SpecSan  sanitizeHtml applied to bounded markup strings               *)
(*   SpecAuth the auth routes behind rateLimitAuthMiddleware               *)
(*   SpecAi   /ai/prompt over several days                                 *)
(*   SpecPay  the payment routes over the users' metadata                  *)
(*   SpecApp  App.tsx: session, views and localStorage                     *)
(*   SpecPwd  AuthPage.tsx: the form and its password check                *)
(*   SpecRace checkRateLimit under requests in flight together             *)
(*   SpecAiRace  /ai/prompt under requests in flight together              *)
(*   SpecSession JournalSession: the timer and the saves of a session      *)
(*   SpecHistory JournalHistory: loading and deleting entries              *)
(***************************************************************************)
EXTENDS Integers, Sequences, FiniteSets, TLC

VARIABLES
    now,             \* Date.now() of the server process
    rateLimitStore,  \* Map<string, {count, resetTime}>, as a function on its keys
    maxAttempts,     \* the maxAttempts argument the call site passes
    calls,           \* history: the checkRateLimit calls made so far
    kvStore,         \* the key-value table, as a function on the keys present
    prevStore,       \* history: the table as the request handled last found it
    savedBy,         \* history: key -> id of the user whose save wrote it
    rawOf,           \* history: key -> the content the client sent in that save
    env,             \* Deno.env: MASTER_ADMIN_EMAIL and OPENAI_API_KEY
    nreq,            \* number of requests handled so far
    lastReq,         \* the request handled last
    resp,            \* the HTTP response to it
    reached,         \* history: key -> the times at which a request passed the gate
    idpCall,         \* history: the identity-provider call the last request made
    given,           \* history: <<user id, day>> -> prompts /ai/prompt returned
    llmCalled,       \* history: the last request called the completion API
    userMeta,        \* the provider's user_metadata.isPro, per user id
    app,             \* client: the state of App (currentView, userId, userEmail, accessToken)
    authPage,        \* client: the state of AuthPage (isLogin, password, error)
    localStorage,    \* client: window.localStorage, as a function on the keys present
    fetched,         \* client: history: the request handleSubmit sent last
    inflight,        \* SpecRace: request -> where it stands in the server process
    journal,         \* client: the state of JournalSession or of JournalHistory
    parts,           \* SpecSan: the fragments the markup under test is made of
    input,           \* SpecSan: the markup under test, the fragments concatenated
    out,             \* SpecSan: sanitizeHtml(input)
    again,           \* SpecSan: sanitizeHtml(out)
    pc               \* SpecSan: position of the sanitizer run; SpecApp: of the getSession promise

vars == <<now, rateLimitStore, maxAttempts, calls, kvStore, prevStore, savedBy, rawOf,
          env, nreq, lastReq, resp, reached, idpCall, given, llmCalled, userMeta,
          app, authPage, localStorage, fetched, inflight, journal,
          parts, input, out, again, pc>>

rlVars  == <<now, rateLimitStore, maxAttempts, calls>>
srvVars == <<kvStore, prevStore, savedBy, rawOf, env, nreq, lastReq, resp>>
sanVars == <<parts, input, out, again, pc>>
authVars == <<reached, idpCall>>
aiVars == <<given, llmCalled>>
payVars == <<userMeta>>
clientVars == <<app, authPage, localStorage, fetched>>
raceVars == <<inflight>>
journalVars == <<journal>>

(***************************************************************************)
(* Bounds                                                                  *)
(***************************************************************************)
MaxTime == 4        \* the clock runs 0..MaxTime
MaxCalls == 4       \* checkRateLimit calls per behaviour
MaxAttemptsBound == 2   \* maxAttempts ranges over 0..MaxAttemptsBound
WindowMs == 2       \* the windowMs argument
MaxFrags == 4       \* fragments per markup string under test

MaxRequests == 3    \* requests per behaviour of the router
MaxAuthRequests == 7    \* requests per behaviour of the auth routes
MaxAuthTicks == 3       \* half windows of time per behaviour of the auth routes
MaxAiRequests == 5      \* requests per behaviour of /ai/prompt
MaxDays == 2            \* UTC days per behaviour of /ai/prompt
MaxPwdFrags == 4        \* pieces per password under test
MaxInFlight == 3        \* requests in flight together
MaxRaceTime == 3        \* the clock runs 0..MaxRaceTime while requests are in flight
MaxMinutes == 1         \* minutes a journaling session can be started with

\* startTimer: const seconds = minutes * 60
SecondsPerMinute == 60

NoResp == [status |-> 0]
NoReq == [route |-> "none", header |-> <<>>]
NoEnv == [adminEmail |-> "", openaiKey |-> FALSE]

\* the requests that can be in flight together
Requests == 1..MaxInFlight

NoEntry == [count |-> 0, resetTime |-> -1]

\* a request the server has not received yet
NotArrived == [pc |-> "none", key |-> "", arrived |-> 0, ran |-> 0, seen |-> NoEntry]

\* JournalSession as it mounts: useState's initial values (sessionDuration 0
\* stands for null); closure is the journalContent the interval callback
\* closed over, pending the contents of the saves that await the cloud's
\* answer; saveCalls and endedBy are history
NewSession ==
    [mounted |-> TRUE, sessionDuration |-> 0, timeRemaining |-> 0, isTimerActive |-> FALSE,
     sessionEnded |-> FALSE, journalContent |-> "", saveStatus |-> "idle",
     closure |-> "", pending |-> <<>>, saveCalls |-> 0, endedBy |-> "none"]

\* handleSubmit has sent nothing yet
NoFetch == [sent |-> "none", isLogin |-> TRUE, password |-> <<>>]

\* the client as it starts: useState's initial values, nothing stored, nothing sent
ClientInit ==
    /\ app = [currentView |-> "landing", userId |-> "null", userEmail |-> "null",
              accessToken |-> "null"]
    /\ authPage = [isLogin |-> TRUE, password |-> <<>>, error |-> ""]
    /\ localStorage = <<>>
    /\ fetched = NoFetch
    /\ inflight = [r \in Requests |-> NotArrived]
    /\ journal = NewSession

(***************************************************************************)
(* Strings are sequences of one-character strings; the regular expressions *)
(* of sanitizeHtml are matched as the JavaScript engine matches them       *)
(* (flags g and i: leftmost match, then on from the end of the match).     *)
(***************************************************************************)
DQ == "\""
SQ == "'"
\* the literal words of sanitizeHtml's patterns
Word ==
    [script |-> <<"s", "c", "r", "i", "p", "t">>,
     iframe |-> <<"i", "f", "r", "a", "m", "e">>,
     object |-> <<"o", "b", "j", "e", "c", "t">>,
     embed |-> <<"e", "m", "b", "e", "d">>,
     href |-> <<"h", "r", "e", "f">>,
     src |-> <<"s", "r", "c">>,
     javascript |-> <<"j", "a", "v", "a", "s", "c", "r", "i", "p", "t", ":">>]

LowerOf == [A |-> "a", B |-> "b", C |-> "c", D |-> "d", E |-> "e", F |-> "f", G |-> "g", H |-> "h", I |-> "i", J |-> "j", K |-> "k", L |-> "l", M |-> "m", N |-> "n", O |-> "o", P |-> "p", Q |-> "q", R |-> "r", S |-> "s", T |-> "t", U |-> "u", V |-> "v", W |-> "w", X |-> "x", Y |-> "y", Z |-> "z"]

\* case folding of the i flag
Lower(c) == IF c \in DOMAIN LowerOf THEN LowerOf[c] ELSE c

Letters == {LowerOf[u] : u \in DOMAIN LowerOf}

\* [a-z] under the i flag
IsLetter(c) == Lower(c) \in Letters

\* \s
IsSpace(c) == c \in {" ", "\n", "\t", "\r"}

\* the literal lit occurs in s at position i (letters compared case-insensitively)
MatchesAt(s, i, lit) ==
    /\ i >= 1
    /\ i + Len(lit) - 1 <= Len(s)
    /\ \A j \in 1..Len(lit) : Lower(s[i + j - 1]) = Lower(lit[j])

RECURSIVE SkipSpace(_, _)
\* \s* from position i: the first position that holds no white space
SkipSpace(s, i) ==
    IF i <= Len(s) /\ IsSpace(s[i]) THEN SkipSpace(s, i + 1) ELSE i

RECURSIVE SkipLetters(_, _)
\* [a-z]* from position i
SkipLetters(s, i) ==
    IF i <= Len(s) /\ IsLetter(s[i]) THEN SkipLetters(s, i + 1) ELSE i

RECURSIVE FindAny(_, _, _)
\* the first position >= i holding a character of cs, 0 when there is none
FindAny(s, i, cs) ==
    IF i > Len(s) THEN 0
    ELSE IF s[i] \in cs THEN i
    ELSE FindAny(s, i + 1, cs)

DenyTags == {Word.script, Word.iframe, Word.object, Word.embed}

\* <\s*\/\s*\1\s*> at position k: the position of its ">", 0 when it does not match
CloseTagEnd(s, k, name) ==
    IF k > Len(s) \/ s[k] # "<" THEN 0
    ELSE LET a == SkipSpace(s, k + 1)
         IN IF a > Len(s) \/ s[a] # "/" THEN 0
            ELSE LET b == SkipSpace(s, a + 1)
                 IN IF ~MatchesAt(s, b, name) THEN 0
                    ELSE LET c == SkipSpace(s, b + Len(name))
                         IN IF c <= Len(s) /\ s[c] = ">" THEN c ELSE 0

RECURSIVE FirstCloseTag(_, _, _)
\* [\s\S]*? before the closing tag: the first closing tag at a position >= k
FirstCloseTag(s, k, name) ==
    IF k > Len(s) THEN 0
    ELSE LET e == CloseTagEnd(s, k, name)
         IN IF e # 0 THEN e ELSE FirstCloseTag(s, k + 1, name)

\* /<\s*(script|iframe|object|embed)[\s\S]*?>[\s\S]*?<\s*\/\s*\1\s*>/gi at
\* position i: the last position of the match, 0 when it does not match
ElementMatchEnd(s, i) ==
    IF s[i] # "<" THEN 0
    ELSE LET a == SkipSpace(s, i + 1)
             names == {n \in DenyTags : MatchesAt(s, a, n)}
         IN IF names = {} THEN 0
            ELSE LET name == CHOOSE n \in names : TRUE
                     g == FindAny(s, a + Len(name), {">"})
                 IN IF g = 0 THEN 0 ELSE FirstCloseTag(s, g + 1, name)

\* /on[a-z]+\s*=\s*"[^"]*"/gi (q the quote character) at position i
HandlerMatchEnd(s, i, q) ==
    IF ~MatchesAt(s, i, <<"o", "n">>) THEN 0
    ELSE LET b == SkipLetters(s, i + 2)
         IN IF b = i + 2 THEN 0
            ELSE LET c == SkipSpace(s, b)
                 IN IF c > Len(s) \/ s[c] # "=" THEN 0
                    ELSE LET d == SkipSpace(s, c + 1)
                         IN IF d > Len(s) \/ s[d] # q THEN 0
                            ELSE FindAny(s, d + 1, {q})

\* /href\s*=\s*"javascript:[^"']*"/gi (attr is href or src) at position i
ScriptUriMatchEnd(s, i, attr) ==
    IF ~MatchesAt(s, i, attr) THEN 0
    ELSE LET c == SkipSpace(s, i + Len(attr))
         IN IF c > Len(s) \/ s[c] # "=" THEN 0
            ELSE LET d == SkipSpace(s, c + 1)
                 IN IF d > Len(s) \/ s[d] # DQ THEN 0
                    ELSE IF ~MatchesAt(s, d + 1, Word.javascript) THEN 0
                    ELSE LET e == FindAny(s, d + 1 + Len(Word.javascript), {DQ, SQ})
                         IN IF e # 0 /\ s[e] = DQ THEN e ELSE 0

\* /<iframe[\s\S]*?>/gi (open is <iframe, <object or <embed) at position i
OpenTagMatchEnd(s, i, open) ==
    IF ~MatchesAt(s, i, open) THEN 0
    ELSE FindAny(s, i + Len(open), {">"})

\* the eight replace passes of sanitizeHtml, in the order of the source
MatchEnd(pass, s, i) ==
    CASE pass = 1 -> ElementMatchEnd(s, i)
      [] pass = 2 -> HandlerMatchEnd(s, i, DQ)
      [] pass = 3 -> HandlerMatchEnd(s, i, SQ)
      [] pass = 4 -> ScriptUriMatchEnd(s, i, Word.href)
      [] pass = 5 -> ScriptUriMatchEnd(s, i, Word.src)
      [] pass = 6 -> OpenTagMatchEnd(s, i, <<"<">> \o Word.iframe)
      [] pass = 7 -> OpenTagMatchEnd(s, i, <<"<">> \o Word.object)
      [] pass = 8 -> OpenTagMatchEnd(s, i, <<"<">> \o Word.embed)

RECURSIVE ReplaceAll(_, _, _)
\* String.prototype.replace(regex with flag g, ''): scanning from position i
ReplaceAll(pass, s, i) ==
    IF i > Len(s) THEN <<>>
    ELSE LET e == MatchEnd(pass, s, i)
         IN IF e = 0 THEN <<s[i]>> \o ReplaceAll(pass, s, i + 1)
            ELSE ReplaceAll(pass, s, e + 1)

RECURSIVE Passes(_, _)
\* passes p..8 applied to s
Passes(p, s) ==
    IF p > 8 THEN s ELSE Passes(p + 1, ReplaceAll(p, s, 1))

\* function sanitizeHtml(input)
sanitizeHtml(s) ==
    IF s = <<>> THEN s ELSE Passes(1, s)


(***************************************************************************)
(* Rate limiter                                                            *)
(***************************************************************************)
RLKeys == {"ip1:/auth/login", "ip1:/auth/signup", "ip2:/auth/login"}

\* if (!entry || now > entry.resetTime)
NeedsNewWindow(store, key, t) ==
    \/ key \notin DOMAIN store
    \/ t > store[key].resetTime

\* mutant of LimitReached: one call too many is allowed
LimitReachedOffByOne(entry, max) == entry.count > max

\* if (entry.count >= maxAttempts) return false
LimitReached(entry, max) == entry.count >= max

\* the boolean checkRateLimit returns
checkRateLimit(store, key, max, t) ==
    IF NeedsNewWindow(store, key, t) THEN TRUE
    ELSE ~LimitReached(store[key], max)

\* mutant of checkRateLimitStore: a denied call is counted too
checkRateLimitStoreCounting(store, key, max, windowMs, t) ==
    IF NeedsNewWindow(store, key, t)
    THEN [k \in DOMAIN store \cup {key} |->
            IF k = key THEN [count |-> 1, resetTime |-> t + windowMs]
            ELSE store[k]]
    ELSE [store EXCEPT ![key].count = @ + 1]

\* mutant of checkRateLimitStore: a new window resets every counter
checkRateLimitStoreShared(store, key, max, windowMs, t) ==
    IF NeedsNewWindow(store, key, t)
    THEN [k \in DOMAIN store \cup {key} |-> [count |-> 1, resetTime |-> t + windowMs]]
    ELSE IF LimitReached(store[key], max) THEN store
    ELSE [store EXCEPT ![key].count = @ + 1]

\* the rateLimitStore checkRateLimit leaves behind
checkRateLimitStore(store, key, max, windowMs, t) ==
    IF NeedsNewWindow(store, key, t)
    THEN [k \in DOMAIN store \cup {key} |->
            IF k = key THEN [count |-> 1, resetTime |-> t + windowMs]
            ELSE store[k]]
    ELSE IF LimitReached(store[key], max) THEN store
    ELSE [store EXCEPT ![key].count = @ + 1]

\* one call checkRateLimit(key, maxAttempts, WindowMs) at the current time
CheckRateLimit(key) ==
    /\ Len(calls) < MaxCalls
    /\ LET allowed == checkRateLimit(rateLimitStore, key, maxAttempts, now)
           store2 == checkRateLimitStore(rateLimitStore, key, maxAttempts, WindowMs, now)
       IN /\ rateLimitStore' = store2
          /\ calls' = Append(calls, [key |-> key, t |-> now, allowed |-> allowed,
                                     count |-> store2[key].count,
                                     resetTime |-> store2[key].resetTime])
    /\ UNCHANGED <<now, maxAttempts>>
    /\ UNCHANGED srvVars
    /\ UNCHANGED sanVars
    /\ UNCHANGED authVars
    /\ UNCHANGED aiVars
    /\ UNCHANGED payVars
    /\ UNCHANGED clientVars
    /\ UNCHANGED raceVars
    /\ UNCHANGED journalVars

\* time passes between requests
Tick ==
    /\ now < MaxTime
    /\ now' = now + 1
    /\ UNCHANGED <<rateLimitStore, maxAttempts, calls>>
    /\ UNCHANGED srvVars
    /\ UNCHANGED sanVars
    /\ UNCHANGED authVars
    /\ UNCHANGED aiVars
    /\ UNCHANGED payVars
    /\ UNCHANGED clientVars
    /\ UNCHANGED raceVars
    /\ UNCHANGED journalVars

InitRL ==
    /\ now = 0
    /\ rateLimitStore = <<>>
    /\ maxAttempts \in 0..MaxAttemptsBound
    /\ calls = <<>>
    /\ kvStore = <<>>
    /\ prevStore = <<>>
    /\ savedBy = <<>>
    /\ rawOf = <<>>
    /\ env = NoEnv
    /\ nreq = 0
    /\ lastReq = NoReq
    /\ resp = NoResp
    /\ reached = <<>>
    /\ idpCall = "none"
    /\ given = <<>>
    /\ llmCalled = FALSE
    /\ userMeta = <<>>
    /\ parts = <<>>
    /\ input = <<>>
    /\ out = <<>>
    /\ again = <<>>
    /\ pc = "idle"
    /\ ClientInit

NextRL ==
    \/ \E key \in RLKeys : CheckRateLimit(key)
    \/ Tick

SpecRL == InitRL /\ [][NextRL]_vars

(***************************************************************************)
(* SpecSan: sanitizeHtml on markup built from fragments                    *)
(***************************************************************************)
\* the pieces the markup strings under test are put together from
Frag ==
    [ScrHead |->   \* the head of a split tag name
         <<"<", "s", "c", "r">>,
     Script |->   \* a script element
         <<"<", "s", "c", "r", "i", "p", "t", ">", "a", "l", "e", "r", "t", "(", "1", ")", "<", "/", "s", "c", "r", "i", "p", "t", ">">>,
     IptTail |->   \* the tail of a split tag name
         <<"i", "p", "t", ">">>,
     CloseScript |->   \* a closing script tag
         <<"<", "/", "s", "c", "r", "i", "p", "t", ">">>,
     Hello |->   \* plain text
         <<"h", "e", "l", "l", "o">>,
     ScriptMixed |->   \* a script element in mixed case spanning lines
         <<"<", "S", "C", "R", "I", "P", "T", ">", "\n", "x", "\n", "<", "/", "S", "c", "r", "i", "p", "t", " ", ">">>,
     TagA |->   \* the start of an anchor tag
         <<"<", "a">>,
     Gt |->   \* the end of a tag
         <<">">>,
     Onclick |->   \* a double-quoted event-handler attribute
         <<" ", "o", "n", "c", "l", "i", "c", "k", "=", "\"", "e", "v", "i", "l", "(", ")", "\"">>,
     Onload |->   \* a single-quoted event-handler attribute
         <<" ", "o", "n", "l", "o", "a", "d", "=", "'", "g", "o", "(", ")", "'">>,
     Title |->   \* a harmless attribute
         <<" ", "t", "i", "t", "l", "e", "=", "\"", "t", "\"">>,
     DataContent |->   \* a harmless attribute whose name contains on<letters>
         <<" ", "d", "a", "t", "a", "-", "c", "o", "n", "t", "e", "n", "t", "=", "\"", "c", "\"">>,
     HrefJs |->   \* a script-scheme link
         <<" ", "h", "r", "e", "f", "=", "\"", "j", "a", "v", "a", "s", "c", "r", "i", "p", "t", ":", "x", "\"">>,
     Iframe |->   \* an unclosed iframe tag
         <<"<", "i", "f", "r", "a", "m", "e", " ", "s", "r", "c", "=", "\"", "x", "\"", ">">>]

Fragments == {Frag[k] : k \in DOMAIN Frag}

HandlerFragments == {Frag.Onclick, Frag.Onload}

SanInputs == UNION {[1..n -> Fragments] : n \in 0..MaxFrags}

RECURSIVE Flatten(_)
Flatten(ps) == IF ps = <<>> THEN <<>> ELSE Head(ps) \o Flatten(Tail(ps))

InitSan ==
    /\ parts \in SanInputs
    /\ input = Flatten(parts)
    /\ out = <<>>
    /\ again = <<>>
    /\ pc = "start"
    /\ ClientInit
    /\ now = 0
    /\ rateLimitStore = <<>>
    /\ maxAttempts = 0
    /\ calls = <<>>
    /\ kvStore = <<>>
    /\ prevStore = <<>>
    /\ savedBy = <<>>
    /\ rawOf = <<>>
    /\ env = NoEnv
    /\ nreq = 0
    /\ lastReq = NoReq
    /\ resp = NoResp
    /\ reached = <<>>
    /\ idpCall = "none"
    /\ given = <<>>
    /\ llmCalled = FALSE
    /\ userMeta = <<>>

\* out = sanitizeHtml(input)
Sanitize ==
    /\ pc = "start"
    /\ out' = sanitizeHtml(input)
    /\ pc' = "once"
    /\ UNCHANGED <<parts, input, again>>
    /\ UNCHANGED rlVars
    /\ UNCHANGED srvVars
    /\ UNCHANGED authVars
    /\ UNCHANGED aiVars
    /\ UNCHANGED payVars
    /\ UNCHANGED clientVars
    /\ UNCHANGED raceVars
    /\ UNCHANGED journalVars

\* again = sanitizeHtml(out): what a rename or a read does to stored content
SanitizeAgain ==
    /\ pc = "once"
    /\ again' = sanitizeHtml(out)
    /\ pc' = "twice"
    /\ UNCHANGED <<parts, input, out>>
    /\ UNCHANGED rlVars
    /\ UNCHANGED srvVars
    /\ UNCHANGED authVars
    /\ UNCHANGED aiVars
    /\ UNCHANGED payVars
    /\ UNCHANGED clientVars
    /\ UNCHANGED raceVars
    /\ UNCHANGED journalVars

NextSan == Sanitize \/ SanitizeAgain

SpecSan == InitSan /\ [][NextSan]_vars

(***************************************************************************)
(* Identity provider and key-value store (external collaborators)          *)
(***************************************************************************)
\* user ids as the provider issues them; the code treats them as opaque strings
UserA == <<"a">>
UserB == <<"a", "b">>
UserAB == <<"a", ":", "b">>
UserIds == {UserA, UserB, UserAB}

EmailOf(id) ==
    IF id = UserA THEN "a@x" ELSE IF id = UserB THEN "ab@x" ELSE "a.b@x"

\* bearer tokens: one live token per user, one the provider rejects, one the
\* provider knows no user for
Tokens == {"tokA", "tokB", "tokAB", "expired", "orphan"}

\* supabaseAdmin.auth.getUser(token)
getUser(token) ==
    CASE token = "tokA" -> [error |-> FALSE, hasUser |-> TRUE, id |-> UserA, email |-> EmailOf(UserA)]
      [] token = "tokB" -> [error |-> FALSE, hasUser |-> TRUE, id |-> UserB, email |-> EmailOf(UserB)]
      [] token = "tokAB" -> [error |-> FALSE, hasUser |-> TRUE, id |-> UserAB, email |-> EmailOf(UserAB)]
      [] token = "expired" -> [error |-> TRUE, hasUser |-> FALSE, id |-> <<>>, email |-> ""]
      [] OTHER -> [error |-> FALSE, hasUser |-> FALSE, id |-> <<>>, email |-> ""]

\* the Authorization header split at blanks: absent, scheme only, scheme and token
Headers == {<<>>, <<"Bearer">>} \cup {<<"Bearer", t>> : t \in Tokens}

\* the header carries a credential the provider accepts
IsAuthentic(header) ==
    /\ Len(header) >= 2
    /\ ~getUser(header[2]).error
    /\ getUser(header[2]).hasUser

\* kv.get(key): the value, or nothing
kvHas(store, key) == key \in DOMAIN store

\* kv.set(key, value)
kvSet(store, key, value) ==
    [k \in DOMAIN store \cup {key} |-> IF k = key THEN value ELSE store[k]]

\* kv.del(key)
kvDel(store, key) ==
    [k \in DOMAIN store \ {key} |-> store[k]]

StartsWith(s, prefix) ==
    /\ Len(prefix) <= Len(s)
    /\ \A i \in 1..Len(prefix) : s[i] = prefix[i]

\* kv.getByPrefix(prefix): the keys whose values are returned
kvGetByPrefix(store, prefix) ==
    {k \in DOMAIN store : StartsWith(k, prefix)}

JOURNAL == <<"j", "o", "u", "r", "n", "a", "l", ":">>
AIPROMPTS == <<"a", "i", "_", "p", "r", "o", "m", "p", "t", "s", ":">>

\* mutant of JournalPrefix: the closing ":" is left out
JournalPrefixNoColon(id) == JOURNAL \o id

\* `journal:${user.id}:`
JournalPrefix(id) == JOURNAL \o id \o <<":">>

\* `journal:${user.id}:${date}`
JournalKey(id, date) == JOURNAL \o id \o <<":">> \o date

(***************************************************************************)
(* verifyUser                                                              *)
(***************************************************************************)
Thrown(message) ==
    [ok |-> FALSE, message |-> message, id |-> <<>>, email |-> ""]

\* mutant of verifyUser: a token the provider rejects is taken for user a
verifyUserTrusting(header) ==
    IF header = <<>> THEN Thrown("No authorization header")
    ELSE IF Len(header) < 2 THEN Thrown("No token provided")
    ELSE LET r == getUser(header[2])
         IN IF r.hasUser THEN [ok |-> TRUE, message |-> "", id |-> r.id, email |-> r.email]
            ELSE [ok |-> TRUE, message |-> "", id |-> UserA, email |-> EmailOf(UserA)]

\* async function verifyUser(authHeader): the user, or the Error thrown
verifyUser(header) ==
    IF header = <<>> THEN Thrown("No authorization header")
    ELSE IF Len(header) < 2 THEN Thrown("No token provided")
    ELSE LET r == getUser(header[2])
         IN IF r.error THEN Thrown("Invalid or expired token")
            ELSE IF ~r.hasUser THEN Thrown("Invalid or expired token")
            ELSE [ok |-> TRUE, message |-> "", id |-> r.id, email |-> r.email]

\* } catch (err) { return c.json({ error: err.message || ... }, 500) }
CaughtStatus == 500

Caught(message) == [status |-> CaughtStatus, error |-> message]

(***************************************************************************)
(* Request router: the protected routes                                    *)
(***************************************************************************)
\* logical dates are whatever token the client sends
Dates == {<<"1">>, <<"2">>}

\* "hello"
ContentPlain == Frag.Hello

\* "<scr<embed>ipt>x</script>": the embed pass leaves "<script>x</script>"
ContentNested ==
    Frag.ScrHead \o <<"<">> \o Word.embed \o <<">">> \o Frag.IptTail \o <<"x">> \o Frag.CloseScript

Contents == {ContentPlain, ContentNested}

\* the contents a stored entry can hold: what clients send, and what saves,
\* renames and reads make of it by sanitizing it again
KnownContents ==
    Contents
    \cup {sanitizeHtml(c) : c \in Contents}
    \cup {sanitizeHtml(sanitizeHtml(c)) : c \in Contents}
    \cup {sanitizeHtml(sanitizeHtml(sanitizeHtml(c))) : c \in Contents}

\* sanitizeHtml on those contents, evaluated once
SanitizedOf == [c \in KnownContents |-> sanitizeHtml(c)]

\* sanitizeHtml(String(content)) as the handlers call it
Sanitized(c) == SanitizedOf[c]

\* the JSON body of POST /journal/save: { entry: { date, content, wordCount, duration } };
\* an empty date or content stands for a missing (falsy) field
SaveBodies ==
    {[hasEntry |-> FALSE, date |-> <<>>, content |-> <<>>, wordCount |-> 0, duration |-> 0],
     [hasEntry |-> TRUE, date |-> <<>>, content |-> ContentPlain, wordCount |-> 7, duration |-> 15],
     [hasEntry |-> TRUE, date |-> <<"1">>, content |-> <<>>, wordCount |-> 7, duration |-> 15]} \cup
    {[hasEntry |-> TRUE, date |-> d, content |-> c, wordCount |-> 7, duration |-> 15] :
        d \in Dates, c \in Contents}

\* what a handler leaves behind: the store, the response, the key it wrote
\* (<<>> when it wrote none) and the owner id it built its key or prefix from
Outcome(store, response, wrote, owner) ==
    [store |-> store, resp |-> response, wrote |-> wrote, owner |-> owner]

\* mutant of journalSave: the content is stored as the client sent it
journalSaveRaw(store, header, body) ==
    LET user == verifyUser(header)
    IN IF ~user.ok THEN Outcome(store, Caught(user.message), <<>>, <<>>)
       ELSE IF ~body.hasEntry \/ body.date = <<>> \/ body.content = <<>>
       THEN Outcome(store, [status |-> 400, error |-> "Invalid entry data"], <<>>, <<>>)
       ELSE LET entryKey == JournalKey(user.id, body.date)
                sanitized == [date |-> body.date, content |-> body.content,
                              title |-> "", wordCount |-> body.wordCount,
                              duration |-> body.duration]
            IN Outcome(kvSet(store, entryKey, sanitized),
                       [status |-> 200, success |-> TRUE, entryId |-> body.date],
                       entryKey, user.id)

\* mutant of journalSave: the entry is merged into the value already stored,
\* so a title set by an earlier rename survives
journalSaveMerging(store, header, body) ==
    LET user == verifyUser(header)
    IN IF ~user.ok THEN Outcome(store, Caught(user.message), <<>>, <<>>)
       ELSE IF ~body.hasEntry \/ body.date = <<>> \/ body.content = <<>>
       THEN Outcome(store, [status |-> 400, error |-> "Invalid entry data"], <<>>, <<>>)
       ELSE LET entryKey == JournalKey(user.id, body.date)
                sanitized == [date |-> body.date, content |-> Sanitized(body.content),
                              title |-> IF kvHas(store, entryKey)
                                        THEN store[entryKey].title ELSE "",
                              wordCount |-> body.wordCount,
                              duration |-> body.duration]
            IN Outcome(kvSet(store, entryKey, sanitized),
                       [status |-> 200, success |-> TRUE, entryId |-> body.date],
                       entryKey, user.id)

\* app.post('/journal/save')
journalSave(store, header, body) ==
    LET user == verifyUser(header)
    IN IF ~user.ok THEN Outcome(store, Caught(user.message), <<>>, <<>>)
       ELSE IF ~body.hasEntry \/ body.date = <<>> \/ body.content = <<>>
       THEN Outcome(store, [status |-> 400, error |-> "Invalid entry data"], <<>>, <<>>)
       ELSE LET entryKey == JournalKey(user.id, body.date)
                sanitized == [date |-> body.date, content |-> Sanitized(body.content),
                              title |-> "", wordCount |-> body.wordCount,
                              duration |-> body.duration]
            IN Outcome(kvSet(store, entryKey, sanitized),
                       [status |-> 200, success |-> TRUE, entryId |-> body.date],
                       entryKey, user.id)

\* mutant of journalRename: a missing entry is created with the title
journalRenameUpsert(store, header, date, title) ==
    LET user == verifyUser(header)
    IN IF ~user.ok THEN Outcome(store, Caught(user.message), <<>>, <<>>)
       ELSE LET entryKey == JournalKey(user.id, date)
                existingEntry == IF kvHas(store, entryKey) THEN store[entryKey]
                                 ELSE [date |-> date, content |-> <<>>, title |-> "",
                                       wordCount |-> 0, duration |-> 0]
                updatedEntry ==
                    [existingEntry EXCEPT
                        !.title = title,
                        !.content = IF @ # <<>> THEN Sanitized(@) ELSE @]
            IN Outcome(kvSet(store, entryKey, updatedEntry),
                       [status |-> 200, success |-> TRUE, entry |-> updatedEntry],
                       entryKey, user.id)

\* mutant of journalRename: the stored content is written back as it was
journalRenameKeepContent(store, header, date, title) ==
    LET user == verifyUser(header)
    IN IF ~user.ok THEN Outcome(store, Caught(user.message), <<>>, <<>>)
       ELSE LET entryKey == JournalKey(user.id, date)
            IN IF ~kvHas(store, entryKey)
               THEN Outcome(store, [status |-> 404, error |-> "Entry not found"], <<>>, user.id)
               ELSE LET updatedEntry == [store[entryKey] EXCEPT !.title = title]
                    IN Outcome(kvSet(store, entryKey, updatedEntry),
                               [status |-> 200, success |-> TRUE, entry |-> updatedEntry],
                               entryKey, user.id)

\* app.put('/journal/entry/:date')
journalRename(store, header, date, title) ==
    LET user == verifyUser(header)
    IN IF ~user.ok THEN Outcome(store, Caught(user.message), <<>>, <<>>)
       ELSE LET entryKey == JournalKey(user.id, date)
            IN IF ~kvHas(store, entryKey)
               THEN Outcome(store, [status |-> 404, error |-> "Entry not found"], <<>>, user.id)
               ELSE LET existingEntry == store[entryKey]
                        updatedEntry ==
                            [existingEntry EXCEPT
                                !.title = title,
                                !.content = IF @ # <<>> THEN Sanitized(@) ELSE @]
                    IN Outcome(kvSet(store, entryKey, updatedEntry),
                               [status |-> 200, success |-> TRUE, entry |-> updatedEntry],
                               entryKey, user.id)

\* app.get('/journal/entries'); the response's entries are kept under their keys
journalEntries(store, header) ==
    LET user == verifyUser(header)
    IN IF ~user.ok THEN Outcome(store, Caught(user.message), <<>>, <<>>)
       ELSE LET prefix == JournalPrefix(user.id)
                entries == kvGetByPrefix(store, prefix)
                safe == [k \in entries |->
                            [store[k] EXCEPT !.content = Sanitized(@)]]
            IN Outcome(store, [status |-> 200, entries |-> safe], <<>>, user.id)

\* mutant of journalDelete: a key without an entry is reported as not found
journalDeleteStrict(store, header, date) ==
    LET user == verifyUser(header)
    IN IF ~user.ok THEN Outcome(store, Caught(user.message), <<>>, <<>>)
       ELSE LET entryKey == JournalKey(user.id, date)
            IN IF ~kvHas(store, entryKey)
               THEN Outcome(store, [status |-> 404, error |-> "Entry not found"], <<>>, user.id)
               ELSE Outcome(kvDel(store, entryKey), [status |-> 200, success |-> TRUE],
                            entryKey, user.id)

\* app.delete('/journal/entry/:date')
journalDelete(store, header, date) ==
    LET user == verifyUser(header)
    IN IF ~user.ok THEN Outcome(store, Caught(user.message), <<>>, <<>>)
       ELSE LET entryKey == JournalKey(user.id, date)
            IN Outcome(kvDel(store, entryKey), [status |-> 200, success |-> TRUE],
                       entryKey, user.id)

\* app.get('/admin/users'); listOk: supabaseAdmin.auth.admin.listUsers() succeeds
adminUsers(store, header, adminEmail, listOk) ==
    LET user == verifyUser(header)
    IN IF ~user.ok THEN Outcome(store, Caught(user.message), <<>>, <<>>)
       ELSE IF adminEmail # "" /\ user.email # adminEmail
       THEN Outcome(store, [status |-> 403,
                            error |-> "Admin access denied. Contact administrator."],
                    <<>>, <<>>)
       ELSE IF ~listOk THEN Outcome(store, Caught("listUsers failed"), <<>>, <<>>)
       ELSE Outcome(store,
                    [status |-> 200,
                     users |-> {[id |-> u, email |-> EmailOf(u)] : u \in UserIds}],
                    <<>>, <<>>)

\* app.get('/admin/user/:userId/entries')
adminUserEntries(store, header, userId) ==
    LET user == verifyUser(header)
    IN IF ~user.ok THEN Outcome(store, Caught(user.message), <<>>, <<>>)
       ELSE LET prefix == JournalPrefix(userId)
                entries == kvGetByPrefix(store, prefix)
            IN Outcome(store, [status |-> 200, entries |-> [k \in entries |-> store[k]]],
                       <<>>, userId)

\* the milliseconds of one UTC day
DayMs == 24 * 60 * 60 * 1000

\* the UTC day a time falls in, counted from the day of time 0
DayOf(t) == t \div DayMs

Digits == <<"0", "1", "2", "3", "4", "5", "6", "7", "8", "9">>

\* now.toISOString().split('T')[0]: YYYY-MM-DD, time 0 being 1970-01-01
today(t) ==
    <<"1", "9", "7", "0", "-", "0", "1", "-", "0", Digits[DayOf(t) + 2]>>

\* mutant of AiKey: the day is left out of the key
AiKeyNoDay(id, t) == AIPROMPTS \o id

\* `ai_prompts:${user.id}:${today}`
AiKey(id, t) == AIPROMPTS \o id \o <<":">> \o today(t)

\* the daily limit of /ai/prompt
DailyPrompts == 3

\* a handler's outcome together with whether it called the completion API
WithLlm(o, called) ==
    [store |-> o.store, resp |-> o.resp, wrote |-> o.wrote, owner |-> o.owner,
     llmCalled |-> called]

\* mutant of aiPrompt: a call of the completion API is counted whatever it
\* returns
aiPromptCountingCalls(store, header, openaiKey, llm, t) ==
    LET user == verifyUser(header)
    IN IF ~user.ok THEN WithLlm(Outcome(store, Caught(user.message), <<>>, <<>>), FALSE)
       ELSE LET rateLimitKey == AiKey(user.id, t)
                promptCount == IF kvHas(store, rateLimitKey)
                               THEN store[rateLimitKey].count ELSE 0
                counted == kvSet(store, rateLimitKey, [count |-> promptCount + 1])
            IN IF promptCount >= DailyPrompts
               THEN WithLlm(Outcome(store,
                                    [status |-> 429,
                                     error |-> "Daily prompt limit reached. Come back tomorrow!"],
                                    <<>>, <<>>), FALSE)
               ELSE IF ~openaiKey
               THEN WithLlm(Outcome(store,
                                    [status |-> 503, error |-> "AI service not configured"],
                                    <<>>, <<>>), FALSE)
               ELSE IF llm = "error"
               THEN WithLlm(Outcome(counted, [status |-> 500, error |-> "OpenAI API error"],
                                    rateLimitKey, user.id), TRUE)
               ELSE IF llm = "throws"
               THEN WithLlm(Outcome(counted, Caught("Failed to generate prompt"),
                                    rateLimitKey, user.id), TRUE)
               ELSE WithLlm(Outcome(counted, [status |-> 200, prompt |-> "prompt"],
                                    rateLimitKey, user.id), TRUE)

\* app.post('/ai/prompt') at time t; llm is what the completion API does:
\* "ok", "error" (a non-OK status) or "throws" (a reply without choices)
aiPrompt(store, header, openaiKey, llm, t) ==
    LET user == verifyUser(header)
    IN IF ~user.ok THEN WithLlm(Outcome(store, Caught(user.message), <<>>, <<>>), FALSE)
       ELSE LET rateLimitKey == AiKey(user.id, t)
                promptCount == IF kvHas(store, rateLimitKey)
                               THEN store[rateLimitKey].count ELSE 0
            IN IF promptCount >= DailyPrompts
               THEN WithLlm(Outcome(store,
                                    [status |-> 429,
                                     error |-> "Daily prompt limit reached. Come back tomorrow!"],
                                    <<>>, <<>>), FALSE)
               ELSE IF ~openaiKey
               THEN WithLlm(Outcome(store,
                                    [status |-> 503, error |-> "AI service not configured"],
                                    <<>>, <<>>), FALSE)
               ELSE IF llm = "error"
               THEN WithLlm(Outcome(store, [status |-> 500, error |-> "OpenAI API error"],
                                    <<>>, <<>>), TRUE)
               ELSE IF llm = "throws"
               THEN WithLlm(Outcome(store, Caught("Failed to generate prompt"), <<>>, <<>>),
                            TRUE)
               ELSE WithLlm(Outcome(kvSet(store, rateLimitKey, [count |-> promptCount + 1]),
                                    [status |-> 200, prompt |-> "prompt"],
                                    rateLimitKey, user.id), TRUE)

(***************************************************************************)
(* Spec: requests handled one at a time                                    *)
(***************************************************************************)
\* the handler's outcome becomes the state; the histories follow the writes
Answer(req, o) ==
    /\ nreq' = nreq + 1
    /\ lastReq' = req
    /\ resp' = o.resp
    /\ kvStore' = o.store
    /\ prevStore' = kvStore
    /\ UNCHANGED env
    /\ UNCHANGED <<rateLimitStore, maxAttempts, calls>>
    /\ UNCHANGED sanVars
    /\ UNCHANGED authVars
    /\ UNCHANGED payVars
    /\ UNCHANGED clientVars
    /\ UNCHANGED raceVars
    /\ UNCHANGED journalVars

Respond(req, o) ==
    /\ nreq < MaxRequests
    /\ Answer(req, o)
    /\ UNCHANGED now

Save(header, body) ==
    LET o == journalSave(kvStore, header, body)
    IN /\ Respond([route |-> "save", header |-> header, body |-> body], o)
       /\ savedBy' = IF o.wrote = <<>> THEN savedBy ELSE kvSet(savedBy, o.wrote, o.owner)
       /\ rawOf' = IF o.wrote = <<>> THEN rawOf ELSE kvSet(rawOf, o.wrote, body.content)
       /\ UNCHANGED aiVars

Rename(header, date, title) ==
    LET o == journalRename(kvStore, header, date, title)
    IN /\ Respond([route |-> "rename", header |-> header, date |-> date, title |-> title], o)
       /\ UNCHANGED <<savedBy, rawOf>>
       /\ UNCHANGED aiVars

ListEntries(header) ==
    LET o == journalEntries(kvStore, header)
    IN /\ Respond([route |-> "list", header |-> header], o)
       /\ UNCHANGED <<savedBy, rawOf>>
       /\ UNCHANGED aiVars

Delete(header, date) ==
    LET o == journalDelete(kvStore, header, date)
    IN /\ Respond([route |-> "delete", header |-> header, date |-> date], o)
       /\ savedBy' = IF o.wrote = <<>> THEN savedBy ELSE kvDel(savedBy, o.wrote)
       /\ rawOf' = IF o.wrote = <<>> THEN rawOf ELSE kvDel(rawOf, o.wrote)
       /\ UNCHANGED aiVars

AdminUsers(header, listOk) ==
    LET o == adminUsers(kvStore, header, env.adminEmail, listOk)
    IN /\ Respond([route |-> "adminUsers", header |-> header], o)
       /\ UNCHANGED <<savedBy, rawOf>>
       /\ UNCHANGED aiVars

AdminUserEntries(header, userId) ==
    LET o == adminUserEntries(kvStore, header, userId)
    IN /\ Respond([route |-> "adminEntries", header |-> header, userId |-> userId], o)
       /\ UNCHANGED <<savedBy, rawOf>>
       /\ UNCHANGED aiVars

\* the histories of /ai/prompt after a request of the caller at time t
AiHistory(o, header, t) ==
    /\ llmCalled' = o.llmCalled
    /\ given' = IF o.resp.status # 200 THEN given
                ELSE LET who == <<getUser(header[2]).id, DayOf(t)>>
                     IN kvSet(given, who, IF who \in DOMAIN given THEN given[who] + 1 ELSE 1)

\* the token travels in x-user-token; the handler builds the header itself
AiPrompt(userToken, llm) ==
    LET header == IF userToken = "" THEN <<>> ELSE <<"Bearer", userToken>>
        o == aiPrompt(kvStore, header, env.openaiKey, llm, now)
    IN /\ Respond([route |-> "ai", header |-> header, t |-> now], o)
       /\ AiHistory(o, header, now)
       /\ UNCHANGED <<savedBy, rawOf>>

Init ==
    /\ kvStore = <<>>
    /\ prevStore = <<>>
    /\ savedBy = <<>>
    /\ rawOf = <<>>
    /\ env \in [adminEmail : {"", EmailOf(UserA)}, openaiKey : BOOLEAN]
    /\ nreq = 0
    /\ lastReq = NoReq
    /\ resp = NoResp
    /\ reached = <<>>
    /\ idpCall = "none"
    /\ given = <<>>
    /\ llmCalled = FALSE
    /\ userMeta = [id \in UserIds |-> "undefined"]
    /\ now = 0
    /\ rateLimitStore = <<>>
    /\ maxAttempts = 0
    /\ calls = <<>>
    /\ parts = <<>>
    /\ input = <<>>
    /\ out = <<>>
    /\ again = <<>>
    /\ pc = "idle"
    /\ ClientInit

Next ==
    \/ \E header \in Headers, body \in SaveBodies : Save(header, body)
    \/ \E header \in Headers, date \in Dates, title \in {"t"} : Rename(header, date, title)
    \/ \E header \in Headers : ListEntries(header)
    \/ \E header \in Headers, date \in Dates : Delete(header, date)
    \/ \E header \in Headers, listOk \in BOOLEAN : AdminUsers(header, listOk)
    \/ \E header \in Headers, userId \in UserIds : AdminUserEntries(header, userId)
    \/ \E userToken \in Tokens \cup {""}, llm \in {"ok", "error", "throws"} :
          AiPrompt(userToken, llm)

Spec == Init /\ [][Next]_vars

(***************************************************************************)
(* SpecPay: the payment routes and the users' metadata at the provider     *)
(***************************************************************************)
\* mutant of IsExactlyTrue: any truthy value counts
IsTruthy(v) == v \in {"boolean:true", "string:true", "number:1"}

\* user.user_metadata?.isPro === true
IsExactlyTrue(v) == v = "boolean:true"

\* app.get('/payment/status'); meta is the provider's user_metadata.isPro per user
paymentStatus(header, meta) ==
    IF header = <<>> THEN [status |-> 200, isPro |-> FALSE]
    ELSE LET user == verifyUser(header)
         IN IF ~user.ok THEN [status |-> 200, isPro |-> FALSE]
            ELSE [status |-> 200, isPro |-> IsExactlyTrue(meta[user.id])]

\* what POST /payment/verify meets: no sessionId in the body, Stripe not
\* configured, a session that Stripe cannot retrieve, an unpaid session, a
\* paid session
VerifyCases == {"noSessionId", "noStripe", "throws", "unpaid", "paid"}

\* app.post('/payment/verify'); userId is session.metadata.userId (<<>> = none)
paymentVerify(meta, case, userId) ==
    IF case = "noSessionId"
    THEN [meta |-> meta, resp |-> [status |-> 400, error |-> "Session ID is required"]]
    ELSE IF case = "noStripe"
    THEN [meta |-> meta, resp |-> [status |-> 503, error |-> "Payment service not configured"]]
    ELSE IF case = "throws"
    THEN [meta |-> meta, resp |-> Caught("Failed to verify payment")]
    ELSE IF case = "unpaid"
    THEN [meta |-> meta, resp |-> [status |-> 200, success |-> FALSE, isPro |-> FALSE]]
    ELSE [meta |-> IF userId \in DOMAIN meta
                   THEN [meta EXCEPT ![userId] = "boolean:true"] ELSE meta,
          resp |-> [status |-> 200, success |-> TRUE, isPro |-> TRUE]]

PaymentStatus(header) ==
    /\ nreq < MaxRequests
    /\ nreq' = nreq + 1
    /\ lastReq' = [route |-> "payStatus", header |-> header]
    /\ resp' = paymentStatus(header, userMeta)
    /\ UNCHANGED <<kvStore, prevStore, savedBy, rawOf, env, userMeta>>
    /\ UNCHANGED rlVars
    /\ UNCHANGED sanVars
    /\ UNCHANGED authVars
    /\ UNCHANGED aiVars
    /\ UNCHANGED clientVars
    /\ UNCHANGED raceVars
    /\ UNCHANGED journalVars

PaymentVerify(case, userId) ==
    LET o == paymentVerify(userMeta, case, userId)
    IN /\ nreq < MaxRequests
       /\ nreq' = nreq + 1
       /\ lastReq' = [route |-> "payVerify", header |-> <<>>, userId |-> userId]
       /\ resp' = o.resp
       /\ userMeta' = o.meta
       /\ UNCHANGED <<kvStore, prevStore, savedBy, rawOf, env>>
       /\ UNCHANGED rlVars
       /\ UNCHANGED sanVars
       /\ UNCHANGED authVars
       /\ UNCHANGED aiVars
       /\ UNCHANGED clientVars
       /\ UNCHANGED raceVars
       /\ UNCHANGED journalVars

\* the provider holds any metadata for the users when the server starts
InitPay ==
    \* what user_metadata.isPro can hold, as JavaScript values
    /\ userMeta \in [UserIds -> {"undefined", "boolean:true", "boolean:false",
                               "string:true", "number:1"}]
    /\ kvStore = <<>>
    /\ prevStore = <<>>
    /\ savedBy = <<>>
    /\ rawOf = <<>>
    /\ env = NoEnv
    /\ nreq = 0
    /\ lastReq = NoReq
    /\ resp = NoResp
    /\ reached = <<>>
    /\ idpCall = "none"
    /\ given = <<>>
    /\ llmCalled = FALSE
    /\ now = 0
    /\ rateLimitStore = <<>>
    /\ maxAttempts = 0
    /\ calls = <<>>
    /\ parts = <<>>
    /\ input = <<>>
    /\ out = <<>>
    /\ again = <<>>
    /\ pc = "idle"
    /\ ClientInit

NextPay ==
    \/ \E header \in Headers : PaymentStatus(header)
    \/ \E case \in VerifyCases, userId \in UserIds \cup {<<>>} : PaymentVerify(case, userId)

SpecPay == InitPay /\ [][NextPay]_vars

(***************************************************************************)
(* SpecAi: /ai/prompt over several days, requests handled one at a time    *)
(***************************************************************************)
\* one request to /ai/prompt at the current time
AiPromptOnDay(userToken, llm) ==
    LET header == IF userToken = "" THEN <<>> ELSE <<"Bearer", userToken>>
        o == aiPrompt(kvStore, header, env.openaiKey, llm, now)
    IN /\ nreq < MaxAiRequests
       /\ Answer([route |-> "ai", header |-> header, t |-> now], o)
       /\ AiHistory(o, header, now)
       /\ UNCHANGED now
       /\ UNCHANGED <<savedBy, rawOf>>

\* time passes between requests, half a day at a time
DayTick ==
    /\ now + DayMs \div 2 < MaxDays * DayMs
    /\ now' = now + DayMs \div 2
    /\ UNCHANGED <<rateLimitStore, maxAttempts, calls>>
    /\ UNCHANGED srvVars
    /\ UNCHANGED sanVars
    /\ UNCHANGED authVars
    /\ UNCHANGED aiVars
    /\ UNCHANGED payVars
    /\ UNCHANGED clientVars
    /\ UNCHANGED raceVars
    /\ UNCHANGED journalVars

NextAi ==
    \/ \E userToken \in Tokens \cup {""}, llm \in {"ok", "error", "throws"} :
          AiPromptOnDay(userToken, llm)
    \/ DayTick

SpecAi == Init /\ [][NextAi]_vars

(***************************************************************************)
(* SpecAiRace: /ai/prompt requests in flight together                      *)
(***************************************************************************)
\* app.post('/ai/prompt') up to its limit check: the handler verifies the
\* caller, reads the count with await kv.get and answers 429 or goes on to
\* await the body and the completion API
AiBegin(r, userToken) ==
    LET header == IF userToken = "" THEN <<>> ELSE <<"Bearer", userToken>>
        user == verifyUser(header)
        rateLimitKey == AiKey(user.id, now)
        promptCount == IF kvHas(kvStore, rateLimitKey) THEN kvStore[rateLimitKey].count ELSE 0
    IN /\ inflight[r].pc \in {"none", "done"}
       /\ nreq < MaxAiRequests
       /\ nreq' = nreq + 1
       /\ inflight' = [inflight EXCEPT ![r] =
              IF ~user.ok THEN [pc |-> "done", status |-> CaughtStatus]
              ELSE IF promptCount >= DailyPrompts THEN [pc |-> "done", status |-> 429]
              ELSE [pc |-> "awaiting", id |-> user.id, key |-> rateLimitKey,
                    promptCount |-> promptCount]]
       /\ UNCHANGED <<kvStore, prevStore, savedBy, rawOf, env, lastReq, resp>>
       /\ UNCHANGED rlVars
       /\ UNCHANGED sanVars
       /\ UNCHANGED authVars
       /\ UNCHANGED aiVars
       /\ UNCHANGED payVars
       /\ UNCHANGED clientVars
       /\ UNCHANGED journalVars

\* the rest of the handler, once the completion API has answered: it writes
\* the count it read plus 1 and returns the prompt
AiEnd(r, llm) ==
    LET mine == inflight[r]
        ok == env.openaiKey /\ llm = "ok"
    IN /\ mine.pc = "awaiting"
       /\ inflight' = [inflight EXCEPT ![r] =
              [pc |-> "done",
               status |-> IF ~env.openaiKey THEN 503 ELSE IF ok THEN 200 ELSE CaughtStatus]]
       /\ kvStore' = IF ok THEN kvSet(kvStore, mine.key, [count |-> mine.promptCount + 1])
                     ELSE kvStore
       /\ llmCalled' = env.openaiKey
       /\ given' = IF ~ok THEN given
                   ELSE LET who == <<mine.id, DayOf(now)>>
                        IN kvSet(given, who, IF who \in DOMAIN given THEN given[who] + 1 ELSE 1)
       /\ UNCHANGED <<prevStore, savedBy, rawOf, env, nreq, lastReq, resp>>
       /\ UNCHANGED rlVars
       /\ UNCHANGED sanVars
       /\ UNCHANGED authVars
       /\ UNCHANGED payVars
       /\ UNCHANGED clientVars
       /\ UNCHANGED journalVars

NextAiRace ==
    \/ \E r \in Requests, userToken \in Tokens \cup {""} : AiBegin(r, userToken)
    \/ \E r \in Requests, llm \in {"ok", "error", "throws"} : AiEnd(r, llm)

SpecAiRace == Init /\ [][NextAiRace]_vars

(***************************************************************************)
(* SpecAuth: /auth/signup and /auth/login behind rateLimitAuthMiddleware   *)
(***************************************************************************)
\* checkRateLimit(key, 5, 60000)
AuthMaxAttempts == 5
AuthWindowMs == 60000

SIGNUP == "/auth/signup"
LOGIN == "/auth/login"
AuthEndpoints == {SIGNUP, LOGIN}

\* the x-forwarded-for and cf-connecting-ip headers of a request ("" = absent)
AuthClients == {[xff |-> "ip1", cf |-> "ip2"],
                [xff |-> "", cf |-> "ip1"]}

\* c.req.header('x-forwarded-for') || c.req.header('cf-connecting-ip') || 'unknown'
ClientIp(client) ==
    IF client.xff # "" THEN client.xff
    ELSE IF client.cf # "" THEN client.cf
    ELSE "unknown"

\* `${ip}:${endpoint}`
AuthKey(ip, endpoint) == ip \o ":" \o endpoint

\* what the handler meets: a body that is no JSON, the JSON body null, a body
\* with a required field missing, a provider that reports an error, a
\* provider that succeeds
AuthCases == {"badJson", "nullBody", "missing", "idpError", "ok"}

\* what a handler leaves behind: the response and the provider call it made
\* (destructuring the body null throws a TypeError, which the catch block answers)
AuthOutcome(response, call) == [resp |-> response, idpCall |-> call]

\* app.post('/auth/signup') after the middleware
authSignup(case) ==
    IF case = "badJson" THEN AuthOutcome(Caught("Signup failed"), "none")
    ELSE IF case = "nullBody" THEN AuthOutcome(Caught("Cannot destructure property 'email' of null"), "none")
    ELSE IF case = "missing"
    THEN AuthOutcome([status |-> 400, error |-> "Email, password, and name are required"],
                     "none")
    ELSE IF case = "idpError"
    THEN AuthOutcome([status |-> 400, error |-> "createUser error"], "createUser")
    ELSE AuthOutcome([status |-> 200, success |-> TRUE], "createUser")

\* app.post('/auth/login') after the middleware
authLogin(case) ==
    IF case = "badJson" THEN AuthOutcome(Caught("Login failed"), "none")
    ELSE IF case = "nullBody" THEN AuthOutcome(Caught("Cannot destructure property 'email' of null"), "none")
    ELSE IF case = "missing"
    THEN AuthOutcome([status |-> 400, error |-> "Email and password are required"], "none")
    ELSE IF case = "idpError"
    THEN AuthOutcome([status |-> 401, error |-> "Invalid email or password"],
                     "signInWithPassword")
    ELSE AuthOutcome([status |-> 200, accessToken |-> "tokA"], "signInWithPassword")

\* mutant of rateLimitAuthMiddleware: the handler runs before the gate answers
rateLimitAuthMiddlewareLate(store, key, t, handled) ==
    IF ~checkRateLimit(store, key, AuthMaxAttempts, t)
    THEN [passed |-> FALSE,
          resp |-> [status |-> 429, error |-> "Too many attempts. Please try again later."],
          idpCall |-> handled.idpCall]
    ELSE [passed |-> TRUE, resp |-> handled.resp, idpCall |-> handled.idpCall]

\* async function rateLimitAuthMiddleware(c, next); handled is what next() does
rateLimitAuthMiddleware(store, key, t, handled) ==
    IF ~checkRateLimit(store, key, AuthMaxAttempts, t)
    THEN [passed |-> FALSE,
          resp |-> [status |-> 429, error |-> "Too many attempts. Please try again later."],
          idpCall |-> "none"]
    ELSE [passed |-> TRUE, resp |-> handled.resp, idpCall |-> handled.idpCall]

\* one request to /auth/signup or /auth/login
AuthRequest(client, endpoint, case) ==
    LET key == AuthKey(ClientIp(client), endpoint)
        handled == IF endpoint = SIGNUP THEN authSignup(case) ELSE authLogin(case)
        o == rateLimitAuthMiddleware(rateLimitStore, key, now, handled)
    IN /\ nreq < MaxAuthRequests
       /\ nreq' = nreq + 1
       /\ rateLimitStore' =
              checkRateLimitStore(rateLimitStore, key, AuthMaxAttempts, AuthWindowMs, now)
       /\ lastReq' = [route |-> endpoint, header |-> <<>>, key |-> key, t |-> now,
                       case |-> case]
       /\ resp' = o.resp
       /\ idpCall' = o.idpCall
       /\ reached' = IF ~o.passed THEN reached
                     ELSE IF key \in DOMAIN reached
                     THEN [reached EXCEPT ![key] = Append(@, now)]
                     ELSE kvSet(reached, key, <<now>>)
       /\ UNCHANGED <<now, maxAttempts, calls>>
       /\ UNCHANGED <<kvStore, prevStore, savedBy, rawOf, env>>
       /\ UNCHANGED sanVars
       /\ UNCHANGED aiVars
       /\ UNCHANGED payVars
       /\ UNCHANGED clientVars
       /\ UNCHANGED raceVars
       /\ UNCHANGED journalVars

\* time passes between requests, half a window at a time
AuthTick ==
    /\ now < MaxAuthTicks * (AuthWindowMs \div 2)
    /\ now' = now + AuthWindowMs \div 2
    /\ UNCHANGED <<rateLimitStore, maxAttempts, calls>>
    /\ UNCHANGED srvVars
    /\ UNCHANGED sanVars
    /\ UNCHANGED authVars
    /\ UNCHANGED aiVars
    /\ UNCHANGED payVars
    /\ UNCHANGED clientVars
    /\ UNCHANGED raceVars
    /\ UNCHANGED journalVars

NextAuth ==
    \/ \E client \in AuthClients, endpoint \in AuthEndpoints, case \in AuthCases :
          AuthRequest(client, endpoint, case)
    \/ AuthTick

SpecAuth == Init /\ [][NextAuth]_vars

(***************************************************************************)
(* SpecApp: the App component (App.tsx)                                    *)
(***************************************************************************)
TOKENKEY == "nightpage_access_token"
ENTRIESKEY == "journalEntries"

\* the sessions the Supabase client can hold: a user and an access token
\* (a refreshed session carries a new token for the same user)
Sessions ==
    {[userId |-> "a", email |-> "a@x", access_token |-> "tokA"],
     [userId |-> "a", email |-> "a@x", access_token |-> "tokA2"],
     [userId |-> "b", email |-> "b@x", access_token |-> "tokB"]}

\* no session: session is null, or has no user
NoSession == [userId |-> "null", email |-> "null", access_token |-> "null"]

\* localStorage.setItem(key, value)
setItem(storage, key, value) ==
    [k \in DOMAIN storage \cup {key} |-> IF k = key THEN value ELSE storage[k]]

\* localStorage.removeItem(key)
removeItem(storage, key) ==
    [k \in DOMAIN storage \ {key} |-> storage[k]]

\* setUserId, setUserEmail, setAccessToken with the session's values
SignedIn(a, session) ==
    [a EXCEPT !.userId = session.userId,
              !.userEmail = session.email,
              !.accessToken = session.access_token]

\* setUserId(null); setUserEmail(null); setAccessToken(null)
SignedOut(a) ==
    [a EXCEPT !.userId = "null", !.userEmail = "null", !.accessToken = "null"]

\* const handleAuthSuccess = (newUserId, email, token) => ...
handleAuthSuccess(a, newUserId, email, token) ==
    [a EXCEPT !.userId = newUserId, !.userEmail = email, !.accessToken = token,
              !.currentView = "landing"]

AppFrame ==
    /\ UNCHANGED <<authPage, fetched>>
    /\ UNCHANGED rlVars
    /\ UNCHANGED srvVars
    /\ UNCHANGED sanVars
    /\ UNCHANGED authVars
    /\ UNCHANGED aiVars
    /\ UNCHANGED payVars
    /\ UNCHANGED raceVars
    /\ UNCHANGED journalVars

\* supabase.auth.getSession().then(...): runs once after the mount
GetSessionThen(session) ==
    /\ pc = "mounted"
    /\ pc' = "checked"
    /\ IF session # NoSession
       THEN /\ app' = SignedIn(app, session)
            /\ localStorage' = setItem(localStorage, TOKENKEY, session.access_token)
       ELSE UNCHANGED <<app, localStorage>>
    /\ UNCHANGED <<parts, input, out, again>>
    /\ UNCHANGED <<authPage, fetched>>
    /\ UNCHANGED rlVars
    /\ UNCHANGED srvVars
    /\ UNCHANGED authVars
    /\ UNCHANGED aiVars
    /\ UNCHANGED payVars
    /\ UNCHANGED raceVars
    /\ UNCHANGED journalVars

\* the onAuthStateChange callback
OnAuthStateChange(session) ==
    /\ IF session # NoSession
       THEN /\ app' = SignedIn(app, session)
            /\ localStorage' = setItem(localStorage, TOKENKEY, session.access_token)
       ELSE /\ app' = SignedOut(app)
            /\ localStorage' = removeItem(localStorage, TOKENKEY)
    /\ AppFrame

\* AuthPage's login succeeded: onAuthSuccess(data.userId, data.email, data.accessToken)
OnAuthSuccess(session) ==
    /\ app.currentView = "auth"
    /\ app' = handleAuthSuccess(app, session.userId, session.email, session.access_token)
    /\ UNCHANGED localStorage
    /\ AppFrame

\* the Sign Out button, shown when userId && currentView === 'landing'
HandleLogout ==
    /\ app.userId # "null"
    /\ app.currentView = "landing"
    /\ app' = [SignedOut(app) EXCEPT !.currentView = "landing"]
    /\ localStorage' = removeItem(removeItem(localStorage, TOKENKEY), ENTRIESKEY)
    /\ AppFrame

\* LandingPage's onStart
HandleStartSession ==
    /\ app.currentView = "landing"
    /\ app' = [app EXCEPT !.currentView = IF app.userId = "null" THEN "auth" ELSE "session"]
    /\ UNCHANGED localStorage
    /\ AppFrame

\* AuthPage's onBack and JournalSession's onEnd: setCurrentView('landing')
BackToLanding ==
    /\ app.currentView \in {"auth", "session"}
    /\ app' = [app EXCEPT !.currentView = "landing"]
    /\ UNCHANGED localStorage
    /\ AppFrame

\* the journal keeps a local copy of the entries while a session is open
StoreEntriesLocally ==
    /\ app.currentView = "session"
    /\ app.userId # "null"
    /\ app.accessToken # "null"
    /\ localStorage' = setItem(localStorage, ENTRIESKEY, "entries")
    /\ UNCHANGED app
    /\ AppFrame

\* App mounts in a browser that has stored nothing yet
InitApp ==
    /\ app = [currentView |-> "landing", userId |-> "null", userEmail |-> "null",
              accessToken |-> "null"]
    /\ authPage = [isLogin |-> TRUE, password |-> <<>>, error |-> ""]
    /\ localStorage = <<>>
    /\ fetched = NoFetch
    /\ inflight = [r \in Requests |-> NotArrived]
    /\ journal = NewSession
    /\ pc = "mounted"
    /\ userMeta = <<>>
    /\ kvStore = <<>>
    /\ prevStore = <<>>
    /\ savedBy = <<>>
    /\ rawOf = <<>>
    /\ env = NoEnv
    /\ nreq = 0
    /\ lastReq = NoReq
    /\ resp = NoResp
    /\ reached = <<>>
    /\ idpCall = "none"
    /\ given = <<>>
    /\ llmCalled = FALSE
    /\ now = 0
    /\ rateLimitStore = <<>>
    /\ maxAttempts = 0
    /\ calls = <<>>
    /\ parts = <<>>
    /\ input = <<>>
    /\ out = <<>>
    /\ again = <<>>

NextApp ==
    \/ \E session \in Sessions \cup {NoSession} : GetSessionThen(session)
    \/ \E session \in Sessions \cup {NoSession} : OnAuthStateChange(session)
    \/ \E session \in Sessions : OnAuthSuccess(session)
    \/ HandleLogout
    \/ HandleStartSession
    \/ BackToLanding
    \/ StoreEntriesLocally

SpecApp == InitApp /\ [][NextApp]_vars

(***************************************************************************)
(* SpecPwd: the AuthPage form (components/AuthPage.tsx)                    *)
(***************************************************************************)
\* the character classes of validatePassword's regular expressions:
\* /[A-Z]/, /[a-z]/, /[0-9]/ and /[!@#$%^&*()_+\-=\[\]{};':"\\|,.<>\/?]/
CharClass ==
    [uppercase |-> DOMAIN LowerOf,
     lowercase |-> Letters,
     number |-> {Digits[i] : i \in 1..Len(Digits)},
     special |-> {"!", "@", "#", "$", "%", "^", "&", "*", "(", ")", "_", "+", "-", "=",
                  "[", "]", "{", "}", ";", "'", ":", "\"", "\\", "|", ",", ".", "<", ">",
                  "/", "?"}]

\* validatePassword(pwd); test is regex.test(pwd) for a character class
validatePassword(pwd) ==
    LET test(class) == \E i \in 1..Len(pwd) : pwd[i] \in class
    IN [length |-> Len(pwd) >= 12,
        uppercase |-> test(CharClass.uppercase),
        lowercase |-> test(CharClass.lowercase),
        number |-> test(CharClass.number),
        special |-> test(CharClass.special)]

\* mutant of isPasswordStrong: the length check is left out
isPasswordStrongAnyLength(pwd) ==
    LET checks == validatePassword(pwd)
    IN \A k \in DOMAIN checks \ {"length"} : checks[k] = TRUE

\* isPasswordStrong(pwd): Object.values(checks).every(v => v === true)
isPasswordStrong(pwd) ==
    LET checks == validatePassword(pwd)
    IN \A k \in DOMAIN checks : checks[k] = TRUE

\* the pieces the passwords under test are typed from
Pwd ==
    [short |-> <<"s", "h", "o", "r", "t">>,
     str0ng |-> <<"S", "t", "r", "0", "n", "g">>,
     bang |-> <<"!">>,
     passphrase |-> <<"P", "a", "s", "s", "p", "h", "r", "a", "s", "e">>,
     tilde |-> <<"~">>,
     pass |-> <<"p", "a", "s", "s">>,
     one |-> <<"1">>,
     a |-> <<"A">>,
     blank |-> <<" ">>]

Passwords ==
    {Flatten(ps) : ps \in UNION {[1..n -> {Pwd[k] : k \in DOMAIN Pwd}] : n \in 0..MaxPwdFrags}}

\* setIsLogin(!isLogin); setError('')
ToggleMode ==
    /\ app.currentView = "auth"
    /\ authPage' = [authPage EXCEPT !.isLogin = ~@, !.error = ""]
    /\ UNCHANGED <<app, localStorage, fetched>>
    /\ UNCHANGED rlVars
    /\ UNCHANGED srvVars
    /\ UNCHANGED sanVars
    /\ UNCHANGED authVars
    /\ UNCHANGED aiVars
    /\ UNCHANGED payVars
    /\ UNCHANGED raceVars
    /\ UNCHANGED journalVars

\* handleSubmit; responseOk is response.ok of the request it sends, session
\* what a successful login returns
HandleSubmit(responseOk, session) ==
    /\ app.currentView = "auth"
    /\ LET Submitted(sent) ==   \* history: what was done with the form as it was
               [sent |-> sent, isLogin |-> authPage.isLogin, password |-> authPage.password]
       IN IF authPage.isLogin
          THEN /\ fetched' = Submitted(LOGIN)
               /\ authPage' = [authPage EXCEPT
                                  !.error = IF responseOk THEN "" ELSE "Login failed"]
               /\ app' = IF responseOk
                         THEN handleAuthSuccess(app, session.userId, session.email,
                                                session.access_token)
                         ELSE app
          ELSE IF ~isPasswordStrong(authPage.password)
          THEN /\ fetched' = Submitted("none")
               /\ authPage' = [authPage EXCEPT
                                  !.error = "Password does not meet security requirements"]
               /\ UNCHANGED app
          ELSE /\ fetched' = Submitted(SIGNUP)
               /\ authPage' = IF responseOk
                              THEN [authPage EXCEPT !.error = "", !.password = <<>>]
                              ELSE [authPage EXCEPT !.error = "Signup failed"]
               /\ UNCHANGED app
    /\ UNCHANGED localStorage
    /\ UNCHANGED rlVars
    /\ UNCHANGED srvVars
    /\ UNCHANGED sanVars
    /\ UNCHANGED authVars
    /\ UNCHANGED aiVars
    /\ UNCHANGED payVars
    /\ UNCHANGED raceVars
    /\ UNCHANGED journalVars

\* the form with any password typed into it
InitPwd ==
    /\ app = [currentView |-> "auth", userId |-> "null", userEmail |-> "null",
              accessToken |-> "null"]
    /\ authPage \in [isLogin : {TRUE}, password : Passwords, error : {""}]
    /\ localStorage = <<>>
    /\ fetched = NoFetch
    /\ inflight = [r \in Requests |-> NotArrived]
    /\ journal = NewSession
    /\ userMeta = <<>>
    /\ kvStore = <<>>
    /\ prevStore = <<>>
    /\ savedBy = <<>>
    /\ rawOf = <<>>
    /\ env = NoEnv
    /\ nreq = 0
    /\ lastReq = NoReq
    /\ resp = NoResp
    /\ reached = <<>>
    /\ idpCall = "none"
    /\ given = <<>>
    /\ llmCalled = FALSE
    /\ now = 0
    /\ rateLimitStore = <<>>
    /\ maxAttempts = 0
    /\ calls = <<>>
    /\ parts = <<>>
    /\ input = <<>>
    /\ out = <<>>
    /\ again = <<>>
    /\ pc = "idle"

NextPwd ==
    \/ ToggleMode
    \/ \E responseOk \in BOOLEAN, session \in Sessions : HandleSubmit(responseOk, session)

SpecPwd == InitPwd /\ [][NextPwd]_vars

(***************************************************************************)
(* SpecRace: requests in flight at the same time in one server process     *)
(***************************************************************************)
\* mutant of EntryRead: the entry is read when the request arrives, the rest
\* of checkRateLimit runs later
EntryReadAtArrival(r) ==
    IF inflight[r].seen = NoEntry THEN <<>>
    ELSE [k \in {inflight[r].key} |-> inflight[r].seen]

\* const entry = rateLimitStore.get(key): read when checkRateLimit runs; the
\* function has no await, so nothing runs between this read and its writes
EntryRead(r) == rateLimitStore

\* the server receives a request; its middleware has not run yet (requests
\* are numbered in the order of their arrival)
Arrive(r, key) ==
    /\ inflight[r].pc = "none"
    /\ \A q \in Requests : q < r => inflight[q].pc # "none"
    /\ inflight' = [inflight EXCEPT ![r] =
                       [pc |-> "arrived", key |-> key, arrived |-> Len(calls), ran |-> 0,
                        seen |-> IF key \in DOMAIN rateLimitStore
                                 THEN rateLimitStore[key] ELSE NoEntry]]
    /\ UNCHANGED rlVars
    /\ UNCHANGED srvVars
    /\ UNCHANGED sanVars
    /\ UNCHANGED authVars
    /\ UNCHANGED aiVars
    /\ UNCHANGED payVars
    /\ UNCHANGED clientVars
    /\ UNCHANGED journalVars

\* the middleware of a request runs checkRateLimit(key, maxAttempts, WindowMs)
\* and either answers 429 or awaits next(); what the handler behind it does
\* afterwards touches no rate-limit state and is left out
RunMiddleware(r) ==
    /\ inflight[r].pc = "arrived"
    /\ LET key == inflight[r].key
           allowed == checkRateLimit(EntryRead(r), key, maxAttempts, now)
           store2 == checkRateLimitStore(rateLimitStore, key, maxAttempts, WindowMs, now)
       IN /\ rateLimitStore' = store2
          /\ calls' = Append(calls, [key |-> key, t |-> now, allowed |-> allowed,
                                     count |-> store2[key].count,
                                     resetTime |-> store2[key].resetTime])
          /\ inflight' = [inflight EXCEPT ![r].pc = IF allowed THEN "handling" ELSE "done",
                                          ![r].ran = Len(calls) + 1]
    /\ UNCHANGED <<now, maxAttempts>>
    /\ UNCHANGED srvVars
    /\ UNCHANGED sanVars
    /\ UNCHANGED authVars
    /\ UNCHANGED aiVars
    /\ UNCHANGED payVars
    /\ UNCHANGED clientVars
    /\ UNCHANGED journalVars

\* time passes while requests are in flight
RaceTick ==
    /\ now < MaxRaceTime
    /\ Tick
    /\ UNCHANGED inflight

InitRace ==
    /\ InitRL
    /\ maxAttempts >= 1

NextRace ==
    \/ \E r \in Requests, key \in RLKeys : Arrive(r, key)
    \/ \E r \in Requests : RunMiddleware(r)
    \/ RaceTick

SpecRace == InitRace /\ [][NextRace]_vars

(***************************************************************************)
(* C1: the fixed-window contract, read off the history of calls            *)
(***************************************************************************)
RECURSIVE WindowContract(_, _, _, _, _)
\* Walks the calls of `key` in order. winEnd is the reset time of the window
\* in force (-1 before the first call), n the calls already made in it.
\* The p-th call of a window is allowed iff p <= maxAttempts; a call after
\* the window elapsed is allowed and opens a window with count = 1.
WindowContract(log, i, key, winEnd, n) ==
    IF i > Len(log) THEN TRUE
    ELSE IF log[i].key # key THEN WindowContract(log, i + 1, key, winEnd, n)
    ELSE IF winEnd < 0
    THEN /\ log[i].allowed = (1 <= maxAttempts)
         /\ WindowContract(log, i + 1, key, log[i].t + WindowMs, 1)
    ELSE IF log[i].t > winEnd
    THEN /\ log[i].allowed
         /\ log[i].count = 1
         /\ log[i].resetTime = log[i].t + WindowMs
         /\ WindowContract(log, i + 1, key, log[i].t + WindowMs, 1)
    ELSE /\ log[i].allowed = (n + 1 <= maxAttempts)
         /\ WindowContract(log, i + 1, key, winEnd, n + 1)

\* C1 as stated: for any max = N, exactly N calls of a window are allowed and
\* the (N+1)th is denied; after the window has elapsed the next call is
\* allowed and starts a new window with count = 1.
C1_AnyMax ==
    \A key \in RLKeys : WindowContract(calls, 1, key, -1, 0)

\* C1 amended: the same contract for every max = N >= 1.
C1_WindowContract ==
    maxAttempts >= 1 => \A key \in RLKeys : WindowContract(calls, 1, key, -1, 0)

\* C1 witness: with N >= 1, a call was denied inside a window and a later
\* call of the same key, made after that window elapsed, was allowed.
C1_Witness ==
    /\ maxAttempts >= 1
    /\ \E i, j \in 1..Len(calls) :
          /\ i < j
          /\ calls[i].key = calls[j].key
          /\ ~calls[i].allowed
          /\ calls[j].t > calls[i].resetTime
          /\ calls[j].allowed
          /\ calls[j].count = 1

(***************************************************************************)
(* C8, C9, C10: sanitizeHtml as a function                                 *)
(***************************************************************************)
\* lit occurs in s at position i, compared exactly
ExactAt(s, i, lit) ==
    /\ i + Len(lit) - 1 <= Len(s)
    /\ \A j \in 1..Len(lit) : s[i + j - 1] = lit[j]

Contains(s, lit) == \E i \in 1..Len(s) : ExactAt(s, i, lit)

EndsWith(s, lit) ==
    /\ Len(lit) <= Len(s)
    /\ ExactAt(s, Len(s) - Len(lit) + 1, lit)

\* s holds a complete script element, in any letter case
HasScriptElement(s) ==
    \E i \in 1..Len(s) :
        /\ s[i] = "<"
        /\ MatchesAt(s, SkipSpace(s, i + 1), Word.script)
        /\ ElementMatchEnd(s, i) # 0

\* C8: sanitization is idempotent: sanitizeHtml(sanitizeHtml(c)) = sanitizeHtml(c)
\* for every content string c.
C8_Idempotent ==
    pc = "twice" => again = out

\* C9: for every input that contains script elements next to plain text, the
\* output does not contain "<script" and keeps the plain text that follows
\* the elements.
C9_NoScriptInOutput ==
    (pc = "once" /\ HasScriptElement(input)) =>
        /\ ~Contains(out, <<"<">> \o Word.script)
        /\ (parts[Len(parts)] = Frag.Hello => EndsWith(out, Frag.Hello))

HarmlessAttrs == {Frag.Title, Frag.DataContent}

\* ps spells one tag <a ...> whose attributes are event handlers and harmless
\* attributes, at least one of them an event handler, with optional text after
IsHandlerTag(ps) ==
    LET n == IF Len(ps) >= 1 /\ ps[Len(ps)] = Frag.Hello THEN Len(ps) - 1 ELSE Len(ps)
    IN /\ n >= 3
       /\ ps[1] = Frag.TagA
       /\ ps[n] = Frag.Gt
       /\ \A i \in 2..(n - 1) : ps[i] \in HandlerFragments \cup HarmlessAttrs
       /\ \E i \in 2..(n - 1) : ps[i] \in HandlerFragments

\* the markup of ps with each event-handler attribute taken out (the blank
\* before the attribute stays)
WithoutHandlers(ps) ==
    Flatten([i \in 1..Len(ps) |->
                IF ps[i] \in HandlerFragments THEN <<" ">> ELSE ps[i]])

\* C10: for a tag that carries on<word>="..." or on<word>='...' attributes,
\* sanitizeHtml removes those attributes and keeps the tag, its other
\* attributes and the text outside the event-handler attributes unchanged.
C10_OnlyHandlersRemoved ==
    (pc = "once" /\ IsHandlerTag(parts)) => out = WithoutHandlers(parts)

(***************************************************************************)
(* C2 .. C7: the routes behind the bearer-token gate                       *)
(***************************************************************************)
\* the id the provider resolves the request's credential to
CallerOf(req) == getUser(req.header[2]).id

HasEntries(req, response) ==
    /\ req.route \in {"list", "adminEntries"}
    /\ response.status = 200

ColonFree(id) == \A i \in 1..Len(id) : id[i] # ":"

IsJournalKey(k) == StartsWith(k, JOURNAL)

\* C2: a request whose credential is missing, malformed, invalid or expired
\* changes nothing in the key-value store, on every protected route.
C2_RejectedBeforeAnyWrite ==
    [][~IsAuthentic(lastReq'.header) => kvStore' = kvStore]_vars

\* C2 witness: a well-formed save with a rejected credential was answered
\* while the store held an entry.
C2_Witness ==
    /\ lastReq.route = "save"
    /\ lastReq.header = <<"Bearer", "expired">>
    /\ lastReq.body.hasEntry
    /\ lastReq.body.date # <<>>
    /\ lastReq.body.content # <<>>
    /\ resp.status # 200
    /\ kvStore # <<>>

\* C3: a request to a protected route whose credential is missing,
\* malformed, invalid or expired is answered with status 401.
C3_Unauthenticated401 ==
    (lastReq.route # "none" /\ ~IsAuthentic(lastReq.header)) => resp.status = 401

\* C4 as stated: for all owner ids (arbitrary strings), GET /journal/entries
\* by B returns exactly the entries saved by B and none saved by A # B.
C4_IsolationAnyIds ==
    (lastReq.route = "list" /\ resp.status = 200) =>
        DOMAIN resp.entries = {k \in DOMAIN kvStore : IsJournalKey(k) /\ savedBy[k] = CallerOf(lastReq)}

\* C4 amended: for owner ids that contain no ":", GET /journal/entries by B
\* returns every entry saved by B and no entry saved by another such owner A.
C4_IsolationColonFreeIds ==
    (lastReq.route = "list" /\ resp.status = 200 /\ ColonFree(CallerOf(lastReq))) =>
        /\ \A k \in DOMAIN resp.entries :
              ColonFree(savedBy[k]) => savedBy[k] = CallerOf(lastReq)
        /\ \A k \in DOMAIN kvStore :
              (IsJournalKey(k) /\ savedBy[k] = CallerOf(lastReq)) => k \in DOMAIN resp.entries

\* C4 witness: B listed its entries while the store held an entry of another
\* colon-free owner A, and got its own entry only.
C4_Witness ==
    /\ lastReq.route = "list"
    /\ resp.status = 200
    /\ CallerOf(lastReq) = UserB
    /\ \E k \in DOMAIN kvStore : IsJournalKey(k) /\ savedBy[k] = UserA
    /\ \E k \in DOMAIN resp.entries : savedBy[k] = UserB

\* C5: in every route that returns journal entries the owner segment of the
\* key is the id of the authenticated caller, so no user observes the
\* entries of a different user: every entry a response returns was saved
\* by the caller of the request (owner ids without ":", where the owner
\* segment of a key is unambiguous).
C5_OwnerSegmentIsCaller ==
    HasEntries(lastReq, resp) =>
        \A k \in DOMAIN resp.entries :
            (ColonFree(savedBy[k]) /\ ColonFree(CallerOf(lastReq)))
                => savedBy[k] = CallerOf(lastReq)

RECURSIVE SanitizedTimes(_, _)
SanitizedTimes(n, c) == IF n = 0 THEN c ELSE Sanitized(SanitizedTimes(n - 1, c))

\* C6: every value stored under a journal key has a content that is an
\* output of sanitizeHtml: the content the client sent, sanitized by the save
\* and once more by each rename; never the raw markup.
C6_StoredContentSanitized ==
    \A k \in DOMAIN kvStore :
        IsJournalKey(k) =>
            \E n \in 1..MaxRequests : kvStore[k].content = SanitizedTimes(n, rawOf[k])

\* C6 witness: an entry whose raw markup the sanitizer changes was saved and
\* then renamed.
C6_Witness ==
    /\ lastReq.route = "rename"
    /\ resp.status = 200
    /\ \E k \in DOMAIN kvStore :
          /\ IsJournalKey(k)
          /\ kvStore[k].title = "t"
          /\ rawOf[k] = ContentNested
          /\ kvStore[k].content # rawOf[k]

\* C7: every journal entry returned in a response (entries list, renamed
\* entry, admin entries list) carries sanitizeHtml of the stored content.
C7_SanitizedAtRead ==
    [][/\ HasEntries(lastReq', resp') =>
            \A k \in DOMAIN resp'.entries :
                resp'.entries[k].content = Sanitized(kvStore[k].content)
       /\ (lastReq'.route = "rename" /\ resp'.status = 200) =>
            resp'.entry.content =
                Sanitized(kvStore[JournalKey(CallerOf(lastReq'), lastReq'.date)].content)
      ]_vars

(***************************************************************************)
(* C11 .. C13: save, delete and rename on one key                          *)
(***************************************************************************)
\* the key-value table agrees with what the last request found, except at key
SameExceptAt(key) ==
    /\ DOMAIN kvStore \ {key} = DOMAIN prevStore \ {key}
    /\ \A k \in DOMAIN kvStore \ {key} : kvStore[k] = prevStore[k]

\* the key a journal request of the caller addresses
KeyOf(req, date) == JournalKey(CallerOf(req), date)

\* C11: save has full-overwrite, last-write-wins semantics: after a save the
\* store holds at journal:{ownerId}:{date} exactly the entry just saved with
\* its content sanitized, no field of the earlier value at that key (a title
\* set by a rename) is kept, and no other key is changed.
C11_SaveOverwrites ==
    (lastReq.route = "save" /\ resp.status = 200) =>
        LET key == KeyOf(lastReq, lastReq.body.date)
        IN /\ key \in DOMAIN kvStore
           /\ kvStore[key] = [date |-> lastReq.body.date,
                              content |-> Sanitized(lastReq.body.content),
                              title |-> "",
                              wordCount |-> lastReq.body.wordCount,
                              duration |-> lastReq.body.duration]
           /\ SameExceptAt(key)

\* C11 witness: a save replaced an entry that an earlier save had written
\* with another content and a rename had given a title.
C11_Witness ==
    /\ lastReq.route = "save"
    /\ resp.status = 200
    /\ LET key == KeyOf(lastReq, lastReq.body.date)
       IN /\ key \in DOMAIN prevStore
          /\ prevStore[key].title = "t"
          /\ prevStore[key].content # kvStore[key].content
          /\ kvStore[key].title = ""

\* C12: delete is idempotent: DELETE /journal/entry/:date by an authenticated
\* owner returns success whether or not an entry exists at its key; afterwards
\* no entry exists at that key, deleting once more leaves the same store, and
\* every other key is unchanged.
C12_DeleteIdempotent ==
    (lastReq.route = "delete" /\ IsAuthentic(lastReq.header)) =>
        LET key == KeyOf(lastReq, lastReq.date)
        IN /\ resp.status = 200
           /\ resp.success
           /\ key \notin DOMAIN kvStore
           /\ journalDelete(kvStore, lastReq.header, lastReq.date).store = kvStore
           /\ journalDelete(kvStore, lastReq.header, lastReq.date).resp.status = 200
           /\ SameExceptAt(key)

\* C12 witness: a delete of a key that holds no entry was answered with
\* success while the store held another entry.
C12_Witness ==
    /\ lastReq.route = "delete"
    /\ resp.status = 200
    /\ KeyOf(lastReq, lastReq.date) \notin DOMAIN prevStore
    /\ kvStore # <<>>

\* C12, second case: a delete that removed an entry and left another one in place
C12_RemovedOne ==
    /\ lastReq.route = "delete"
    /\ resp.status = 200
    /\ KeyOf(lastReq, lastReq.date) \in DOMAIN prevStore
    /\ kvStore # <<>>

\* C13: rename (PUT /journal/entry/:date) on a key with no entry fails with
\* HTTP 404 and leaves the store unchanged: no write, no entry created.
C13_RenameMissingIs404 ==
    (/\ lastReq.route = "rename"
     /\ IsAuthentic(lastReq.header)
     /\ KeyOf(lastReq, lastReq.date) \notin DOMAIN prevStore) =>
        /\ resp.status = 404
        /\ kvStore = prevStore
        /\ KeyOf(lastReq, lastReq.date) \notin DOMAIN kvStore

\* C13 witness: a rename addressed a key without an entry while the caller
\* had an entry under another date.
C13_Witness ==
    /\ lastReq.route = "rename"
    /\ IsAuthentic(lastReq.header)
    /\ KeyOf(lastReq, lastReq.date) \notin DOMAIN prevStore
    /\ resp.status = 404
    /\ \E d \in Dates : KeyOf(lastReq, d) \in DOMAIN kvStore

(***************************************************************************)
(* C14: the rate-limit gate in front of /auth/signup and /auth/login       *)
(***************************************************************************)
RECURSIVE GateWindows(_, _, _, _)
\* Walks the times at which requests of one key reached the handler. A window
\* opens with the first request and with the first request after the window
\* in force has run its 60 seconds. Yields the end of the last window, the
\* number of requests that reached the handler in it, and whether every
\* window let at most 5 requests through.
GateWindows(times, i, winEnd, n) ==
    IF i > Len(times) THEN [end |-> winEnd, n |-> n, ok |-> TRUE]
    ELSE IF winEnd < 0 \/ times[i] > winEnd
    THEN GateWindows(times, i + 1, times[i] + 60000, 1)
    ELSE LET rest == GateWindows(times, i + 1, winEnd, n + 1)
         IN [rest EXCEPT !.ok = @ /\ n + 1 <= 5]

ReachedTimes(key) == IF key \in DOMAIN reached THEN reached[key] ELSE <<>>

\* C14: on /auth/signup and /auth/login, for one client IP and one endpoint at
\* most 5 requests per 60-second window reach the handler; every further
\* request in that window is answered with HTTP 429 and calls neither
\* createUser nor signInWithPassword; a request is turned away only then.
C14_GateBeforeHandler ==
    /\ \A key \in DOMAIN reached : GateWindows(reached[key], 1, -1, 0).ok
    /\ lastReq.route \in AuthEndpoints =>
          LET w == GateWindows(ReachedTimes(lastReq.key), 1, -1, 0)
              last == ReachedTimes(lastReq.key)
          IN IF resp.status = 429
             THEN /\ idpCall = "none"
                  /\ w.n = 5
                  /\ lastReq.t <= w.end
             ELSE /\ last # <<>>
                  /\ last[Len(last)] = lastReq.t

\* C14 witness: some time after start, a sixth login request of one client in
\* one window was answered with 429, while the same client's signup requests
\* had been let through since time 0.
C14_Witness ==
    /\ lastReq.route = LOGIN
    /\ resp.status = 429
    /\ Len(ReachedTimes(lastReq.key)) >= 5
    /\ lastReq.t > 0
    /\ \E key \in DOMAIN reached :
          /\ key # lastReq.key
          /\ Len(reached[key]) >= 1
          /\ reached[key][1] = 0

(***************************************************************************)
(* C15: the admin routes                                                   *)
(***************************************************************************)
\* C15: when MASTER_ADMIN_EMAIL is set, GET /admin/users and
\* GET /admin/user/:userId/entries answer an authenticated caller whose email
\* differs from it with HTTP 403, and so return no user list and no entries.
C15_AdminOnly ==
    (/\ env.adminEmail # ""
     /\ lastReq.route \in {"adminUsers", "adminEntries"}
     /\ IsAuthentic(lastReq.header)
     /\ getUser(lastReq.header[2]).email # env.adminEmail) =>
        resp.status = 403

(***************************************************************************)
(* C16: the daily limit of /ai/prompt                                      *)
(***************************************************************************)
\* the prompts returned so far to a user on a day
GivenTo(id, day) == IF <<id, day>> \in DOMAIN given THEN given[<<id, day>>] ELSE 0

\* C16: with a user's /ai/prompt requests handled one after another, at most
\* 3 requests per user per UTC day return a prompt; every further request of
\* that user on that day is answered with HTTP 429 without a call to the LLM
\* API; a request is answered with 429 only when the caller's own count for
\* that day is used up, whatever other users or other days have used.
C16_DailyPromptLimit ==
    /\ \A who \in DOMAIN given : given[who] <= 3
    /\ (lastReq.route = "ai" /\ IsAuthentic(lastReq.header)) =>
          LET n == GivenTo(CallerOf(lastReq), DayOf(lastReq.t))
              before == IF resp.status = 200 THEN n - 1 ELSE n
          IN /\ before >= 3 => (resp.status = 429 /\ ~llmCalled)
             /\ resp.status = 429 => before >= 3

\* C16 witness: in the second half of a day a user who had been given three
\* prompts that day was answered with 429, another user having been given a
\* prompt the same day.
C16_Witness ==
    /\ lastReq.route = "ai"
    /\ resp.status = 429
    /\ lastReq.t > 0
    /\ GivenTo(CallerOf(lastReq), DayOf(lastReq.t)) = 3
    /\ \E id \in UserIds :
          id # CallerOf(lastReq) /\ GivenTo(id, DayOf(lastReq.t)) >= 1

\* C16, second case: a user whose count was used up the day before is given
\* a prompt again.
C16_NextDay ==
    /\ lastReq.route = "ai"
    /\ resp.status = 200
    /\ DayOf(lastReq.t) = 1
    /\ GivenTo(CallerOf(lastReq), 0) = 3

(***************************************************************************)
(* C17: GET /payment/status                                                *)
(***************************************************************************)
\* C17: GET /payment/status never propagates an error: it always answers with
\* status 200 and an isPro flag; the flag is false without an Authorization
\* header or with a credential that fails verification, and true only when
\* the credential verifies and the user's metadata has isPro exactly true.
C17_StatusNeverFails ==
    lastReq.route = "payStatus" =>
        /\ resp.status = 200
        /\ resp.isPro \in BOOLEAN
        /\ ~IsAuthentic(lastReq.header) => ~resp.isPro
        /\ resp.isPro =>
              /\ IsAuthentic(lastReq.header)
              /\ userMeta[CallerOf(lastReq)] = "boolean:true"

\* C17 witness: a status request with a token the provider rejects was
\* answered with isPro = false while some user's metadata held isPro = true.
C17_Witness ==
    /\ lastReq.route = "payStatus"
    /\ lastReq.header = <<"Bearer", "expired">>
    /\ resp.status = 200
    /\ ~resp.isPro
    /\ \E id \in UserIds : userMeta[id] = "boolean:true"

\* C17, second case: a user whose metadata holds the string "true" asked for
\* the status with a valid token and was answered with isPro = false.
C17_NotExactlyTrue ==
    /\ lastReq.route = "payStatus"
    /\ IsAuthentic(lastReq.header)
    /\ userMeta[CallerOf(lastReq)] = "string:true"
    /\ ~resp.isPro

(***************************************************************************)
(* C18: the password policy of the signup form                             *)
(***************************************************************************)
\* the number of characters of pwd that belong to a class
CountIn(pwd, class) == Cardinality({i \in 1..Len(pwd) : pwd[i] \in class})

\* length >= 12, an uppercase letter, a lowercase letter, a digit and a
\* special character (one of those the form's check lists)
MeetsPolicy(pwd) ==
    /\ Len(pwd) >= 12
    /\ CountIn(pwd, CharClass.uppercase) >= 1
    /\ CountIn(pwd, CharClass.lowercase) >= 1
    /\ CountIn(pwd, CharClass.number) >= 1
    /\ CountIn(pwd, CharClass.special) >= 1

StrongExample == Pwd.str0ng \o Pwd.bang \o Pwd.passphrase

\* C18: in signup mode the form sends a signup request exactly when the
\* password has length >= 12 and contains an uppercase letter, a lowercase
\* letter, a digit and a special character; a password failing a check
\* ("short") is rejected before any network call, and one passing all checks
\* ("Str0ng!Passphrase") is sent. In login mode no policy is applied: the
\* login request is sent whatever the password.
C18_PasswordPolicy ==
    /\ fetched.sent = SIGNUP => (~fetched.isLogin /\ MeetsPolicy(fetched.password))
    /\ (fetched # NoFetch /\ ~fetched.isLogin) =>
          /\ fetched.sent = IF MeetsPolicy(fetched.password) THEN SIGNUP ELSE "none"
          /\ fetched.password = Pwd.short => fetched.sent = "none"
          /\ fetched.password = StrongExample => fetched.sent = SIGNUP
    /\ (fetched # NoFetch /\ fetched.isLogin) => fetched.sent = LOGIN

\* C18 witness: the form in signup mode sent "Str0ng!Passphrase".
C18_Witness ==
    /\ ~fetched.isLogin
    /\ fetched.password = StrongExample
    /\ fetched.sent = SIGNUP

\* C18, second case: the form in signup mode held back a password of 11
\* characters that has all four kinds of character.
C18_ElevenRejected ==
    /\ ~fetched.isLogin
    /\ fetched.password = Pwd.str0ng \o Pwd.bang \o Pwd.pass
    /\ fetched.sent = "none"
    /\ authPage.error # ""

\* C18, third case: the form in login mode sent "short".
C18_LoginUnchecked ==
    /\ fetched.isLogin
    /\ fetched.password = Pwd.short
    /\ fetched.sent = LOGIN

(***************************************************************************)
(* C19: the access token in localStorage                                   *)
(***************************************************************************)
\* C19: in every reachable state of App in which the accessToken state is
\* non-null, localStorage key 'nightpage_access_token' holds that same token,
\* however the login came about; whenever the user is logged out (the
\* accessToken state is null) the key is absent.
C19_TokenPersisted ==
    IF app.accessToken # "null"
    THEN /\ TOKENKEY \in DOMAIN localStorage
         /\ localStorage[TOKENKEY] = app.accessToken
    ELSE TOKENKEY \notin DOMAIN localStorage

(***************************************************************************)
(* C20: calls of checkRateLimit made by requests in flight together        *)
(***************************************************************************)
\* the call of a request that has run its middleware
CallOf(r) == calls[inflight[r].ran]

\* r ran its call first, and s had already arrived when it did: both were
\* in flight together before either call ran
Simultaneous(r, s) ==
    /\ inflight[r].ran > 0
    /\ inflight[s].ran > inflight[r].ran
    /\ inflight[s].arrived < inflight[r].ran
    /\ inflight[r].key = inflight[s].key

\* the call of r was allowed and took the last place of its window, and the
\* call of s fell into the same window
LastPlaceThenSameWindow(r, s) ==
    /\ CallOf(r).allowed
    /\ CallOf(r).count = maxAttempts
    /\ CallOf(s).resetTime = CallOf(r).resetTime

AllowedIn(key, resetTime) ==
    Cardinality({i \in 1..Len(calls) : /\ calls[i].key = key
                                       /\ calls[i].resetTime = resetTime
                                       /\ calls[i].allowed})

SessionFrame ==
    /\ UNCHANGED <<app, authPage, fetched>>
    /\ UNCHANGED rlVars
    /\ UNCHANGED srvVars
    /\ UNCHANGED sanVars
    /\ UNCHANGED authVars
    /\ UNCHANGED aiVars
    /\ UNCHANGED payVars
    /\ UNCHANGED raceVars

\* !journalContent.trim()
BlankText(content) == content \in {"", " "}

\* JSON.parse(localStorage.getItem(key) || '[]')
storedEntries(storage, key) ==
    IF key \in DOMAIN storage THEN storage[key] ELSE <<>>

\* saveEntryToLocalStorage, with the journalContent its closure holds; the
\* component was given user a
saveEntryToLocalStorage(storage, content) ==
    LET storageKey == "journalEntries_a"
    IN IF BlankText(content)
       THEN storage
       ELSE setItem(storage, storageKey, Append(storedEntries(storage, storageKey), content))

\* saveEntryToCloud up to its await: blank content returns, any other sets
\* saveStatus to 'saving' and sends the request
saveEntryToCloud(j, content) ==
    IF BlankText(content)
    THEN [j EXCEPT !.saveCalls = @ + 1]
    ELSE [j EXCEPT !.saveCalls = @ + 1,
                   !.saveStatus = "saving",
                   !.pending = Append(@, content)]

\* startTimer(minutes), from the timer selection shown while sessionDuration
\* is null; the effect then sets the interval up
StartTimer(minutes) ==
    /\ journal.mounted
    /\ journal.sessionDuration = 0
    /\ journal' = [journal EXCEPT !.sessionDuration = minutes * SecondsPerMinute,
                                  !.timeRemaining = minutes * SecondsPerMinute,
                                  !.isTimerActive = TRUE,
                                  !.sessionEnded = FALSE,
                                  !.closure = journal.journalContent]
    /\ UNCHANGED localStorage
    /\ SessionFrame

\* toggleTimer, the pause and resume button shown until the session ends; the
\* effect runs again as isTimerActive changes
ToggleTimer ==
    /\ journal.mounted
    /\ journal.sessionDuration # 0
    /\ ~journal.sessionEnded
    /\ journal' = [journal EXCEPT !.isTimerActive = ~@,
                                  !.closure = journal.journalContent]
    /\ UNCHANGED localStorage
    /\ SessionFrame

\* endSession, the end button shown until the session ends
EndSession ==
    /\ journal.mounted
    /\ journal.sessionDuration # 0
    /\ ~journal.sessionEnded
    /\ journal' = saveEntryToCloud(
                      [journal EXCEPT !.isTimerActive = FALSE,
                                      !.sessionEnded = TRUE,
                                      !.endedBy = "user"],
                      journal.journalContent)
    /\ UNCHANGED localStorage
    /\ SessionFrame

\* mutant of TimerTick: the updater only counts down and never concludes
TimerTickOnlyCounting ==
    /\ journal.mounted
    /\ journal.isTimerActive
    /\ journal.timeRemaining > 0
    /\ journal' = [journal EXCEPT !.timeRemaining = @ - 1,
                                  !.closure = journal.journalContent]
    /\ UNCHANGED localStorage
    /\ SessionFrame

\* the callback of the interval, one second after the effect ran: the
\* updater of setTimeRemaining, which calls saveEntryToCloud as the effect's
\* render defined it; then the effect runs again as timeRemaining changes
TimerTick ==
    /\ journal.mounted
    /\ journal.isTimerActive
    /\ journal.timeRemaining > 0
    /\ journal' =
           IF journal.timeRemaining <= 1
           THEN saveEntryToCloud(
                    [journal EXCEPT !.isTimerActive = FALSE,
                                    !.sessionEnded = TRUE,
                                    !.timeRemaining = 0,
                                    !.endedBy = "timer"],
                    journal.closure)
           ELSE [journal EXCEPT !.timeRemaining = @ - 1,
                                !.closure = journal.journalContent]
    /\ UNCHANGED localStorage
    /\ SessionFrame

\* the editor's onChange={setJournalContent}, disabled once the session ended
EditContent(content) ==
    /\ journal.mounted
    /\ journal.sessionDuration # 0
    /\ ~journal.sessionEnded
    /\ content # journal.journalContent
    /\ journal' = [journal EXCEPT !.journalContent = content]
    /\ UNCHANGED localStorage
    /\ SessionFrame

\* saveEntryToCloud after its await: the cloud answered OK, answered with
\* another status, or the request threw
SaveSettles(outcome) ==
    /\ journal.pending # <<>>
    /\ localStorage' = saveEntryToLocalStorage(localStorage, Head(journal.pending))
    /\ journal' = [journal EXCEPT !.pending = Tail(@),
                                  !.saveStatus = IF outcome = "ok" THEN "saved" ELSE "error"]
    /\ SessionFrame

\* setTimeout(() => setSaveStatus('idle'), 3000)
SaveStatusIdle ==
    /\ journal.saveStatus \in {"saved", "error"}
    /\ journal' = [journal EXCEPT !.saveStatus = "idle"]
    /\ UNCHANGED localStorage
    /\ SessionFrame

\* onClick={onEnd}: the user leaves and the component unmounts, which clears
\* the interval
ExitSession ==
    /\ journal.mounted
    /\ journal' = [journal EXCEPT !.mounted = FALSE, !.isTimerActive = FALSE]
    /\ UNCHANGED localStorage
    /\ SessionFrame

\* JournalSession mounts for user a, whose browser may hold earlier entries
InitSession ==
    /\ app = [currentView |-> "session", userId |-> "a", userEmail |-> "a@x",
              accessToken |-> "tokA"]
    /\ authPage = [isLogin |-> TRUE, password |-> <<>>, error |-> ""]
    /\ journal = NewSession
    /\ fetched = NoFetch
    /\ inflight = [r \in Requests |-> NotArrived]
    /\ userMeta = <<>>
    /\ kvStore = <<>>
    /\ prevStore = <<>>
    /\ savedBy = <<>>
    /\ rawOf = <<>>
    /\ env = NoEnv
    /\ nreq = 0
    /\ lastReq = NoReq
    /\ resp = NoResp
    /\ reached = <<>>
    /\ idpCall = "none"
    /\ given = <<>>
    /\ llmCalled = FALSE
    /\ now = 0
    /\ rateLimitStore = <<>>
    /\ maxAttempts = 0
    /\ calls = <<>>
    /\ parts = <<>>
    /\ input = <<>>
    /\ out = <<>>
    /\ again = <<>>
    /\ pc = "mounted"
    /\ localStorage \in {<<>>, setItem(<<>>, "journalEntries_a", <<"an earlier night">>)}

NextSession ==
    \/ \E minutes \in 1..MaxMinutes : StartTimer(minutes)
    \/ ToggleTimer
    \/ EndSession
    \/ TimerTick
    \* what the editor can hold: nothing, white space only, text
    \/ \E content \in {"", " ", "dear diary"} : EditContent(content)
    \/ \E outcome \in {"ok", "notOk", "throws"} : SaveSettles(outcome)
    \/ SaveStatusIdle
    \/ ExitSession

\* the browser fires the interval's callback as long as the interval exists
SpecSession == InitSession /\ [][NextSession]_vars /\ WF_vars(TimerTick)

(***************************************************************************)
(* SpecHistory: the JournalHistory component (JournalHistory.tsx), in      *)
(* front of the server's kv store; an entry is written as its date         *)
(***************************************************************************)
\* loadEntries: the cloud's entries when a token is stored and the response is
\* OK, the entries of localStorage otherwise ('nightpage_user_id' is written
\* nowhere, so the key is 'journalEntries')
loadEntries(storage, store, cloud) ==
    LET \* the order in which data.entries arrives
        order == <<<<"1">>, <<"2">>>>
        fromLocal == [entries |-> storedEntries(storage, ENTRIESKEY), source |-> "local"]
        from(response) ==
            IF response.status = 200
            THEN [entries |-> SelectSeq(order,
                                        LAMBDA d : \E k \in DOMAIN response.entries :
                                                       response.entries[k].date = d),
                  source |-> "cloud"]
            ELSE fromLocal
    IN IF TOKENKEY \in DOMAIN storage /\ cloud = "answers"
       THEN from(journalEntries(store, <<"Bearer", storage[TOKENKEY]>>).resp)
       ELSE fromLocal

\* useEffect(() => { loadEntries(); }, []): the load after the mount
LoadEntries(cloud) ==
    /\ journal.loading
    /\ LET show(loaded) == [journal EXCEPT !.entries = loaded.entries,
                                           !.source = loaded.source,
                                           !.loading = FALSE]
       IN journal' = show(loadEntries(localStorage, kvStore, cloud))
    /\ UNCHANGED localStorage
    /\ UNCHANGED kvStore
    /\ SessionFrame

\* deleteEntry(date) on an entry that is shown, and the reload it starts;
\* shownBefore and deleted are history
DeleteEntry(date, confirmed, cloud) ==
    /\ ~journal.loading
    /\ \E i \in 1..Len(journal.entries) : journal.entries[i] = date
    /\ IF confirmed
       THEN LET updated == SelectSeq(journal.entries, LAMBDA d : d # date)
                \* updated.reverse()
                reversed == [i \in 1..Len(updated) |-> updated[Len(updated) + 1 - i]]
                storage == setItem(localStorage, ENTRIESKEY, reversed)
                show(loaded) == [journal EXCEPT !.entries = loaded.entries,
                                                !.source = loaded.source,
                                                !.shownBefore = journal.entries,
                                                !.deleted = date]
            IN /\ localStorage' = storage
               /\ journal' = show(loadEntries(storage, kvStore, cloud))
       ELSE UNCHANGED <<localStorage, journal>>
    /\ UNCHANGED kvStore
    /\ SessionFrame

\* JournalHistory mounts in a browser that may hold a token and local
\* entries, in front of a store that may hold entries of user a
InitHistory ==
    /\ app = [currentView |-> "history", userId |-> "null", userEmail |-> "null",
              accessToken |-> "null"]
    /\ authPage = [isLogin |-> TRUE, password |-> <<>>, error |-> ""]
    /\ \E tokens \in {<<>>, <<"tokA">>, <<"expired">>},
          locals \in {<<>>, <<<<"1">>>>, <<<<"1">>, <<"2">>>>, <<<<"2">>, <<"1">>>>} :
          localStorage = [k \in {TOKENKEY : i \in 1..Len(tokens)} \cup {ENTRIESKEY} |->
                             IF k = TOKENKEY THEN tokens[1] ELSE locals]
    /\ \E dates \in SUBSET Dates :
          kvStore = [k \in {JournalKey(UserA, d) : d \in dates} |->
                        [date |-> CHOOSE d \in dates : JournalKey(UserA, d) = k,
                         content |-> ContentPlain, wordCount |-> 7, duration |-> 15]]
    /\ journal = [entries |-> <<>>, source |-> "cloud", loading |-> TRUE,
                  shownBefore |-> <<>>, deleted |-> <<>>]
    /\ fetched = NoFetch
    /\ inflight = [r \in Requests |-> NotArrived]
    /\ userMeta = <<>>
    /\ prevStore = <<>>
    /\ savedBy = <<>>
    /\ rawOf = <<>>
    /\ env = NoEnv
    /\ nreq = 0
    /\ lastReq = NoReq
    /\ resp = NoResp
    /\ reached = <<>>
    /\ idpCall = "none"
    /\ given = <<>>
    /\ llmCalled = FALSE
    /\ now = 0
    /\ rateLimitStore = <<>>
    /\ maxAttempts = 0
    /\ calls = <<>>
    /\ parts = <<>>
    /\ input = <<>>
    /\ out = <<>>
    /\ again = <<>>
    /\ pc = "mounted"

NextHistory ==
    \/ \E cloud \in {"answers", "throws"} : LoadEntries(cloud)
    \/ \E date \in Dates, confirmed \in BOOLEAN, cloud \in {"answers", "throws"} :
          DeleteEntry(date, confirmed, cloud)

SpecHistory == InitHistory /\ [][NextHistory]_vars

(***************************************************************************)
(* C21, C22, C23: the counters of checkRateLimit                           *)
(***************************************************************************)
\* the step is a call of checkRateLimit on key
CallStepOn(key) ==
    /\ Len(calls') = Len(calls) + 1
    /\ calls'[Len(calls')].key = key

\* C21: inside a live window a denied call leaves count and resetTime as they
\* were, and an allowed call adds exactly 1 to count and leaves resetTime as
\* it was; so with one max >= 1 the stored count never exceeds max.
C21_CounterSteps ==
    /\ [][\A key \in RLKeys :
            (/\ CallStepOn(key)
             /\ key \in DOMAIN rateLimitStore
             /\ now <= rateLimitStore[key].resetTime)
            => IF calls'[Len(calls')].allowed
               THEN rateLimitStore'[key] =
                        [count |-> rateLimitStore[key].count + 1,
                         resetTime |-> rateLimitStore[key].resetTime]
               ELSE rateLimitStore'[key] = rateLimitStore[key]]_vars
    /\ [](maxAttempts >= 1 =>
            \A key \in DOMAIN rateLimitStore : rateLimitStore[key].count <= maxAttempts)

\* C21 witness: in one window of a key a call was allowed and counted as the
\* second or later, and a later call found the count at max and was denied.
C21_Witness ==
    \E i, j \in 1..Len(calls) :
        /\ i < j
        /\ calls[i].key = calls[j].key
        /\ calls[i].resetTime = calls[j].resetTime
        /\ calls[i].allowed
        /\ calls[i].count >= 2
        /\ ~calls[j].allowed
        /\ calls[j].count = maxAttempts

\* the allowed calls of key made at times from..from + WindowMs
AllowedInSpan(key, from) ==
    Cardinality({i \in 1..Len(calls) : /\ calls[i].key = key
                                       /\ calls[i].allowed
                                       /\ calls[i].t >= from
                                       /\ calls[i].t <= from + WindowMs})

\* C22 as stated: for any max, the allowed calls of a key in any time span of
\* length at most W number at most 2 x max.
C22_AnyMax ==
    \A key \in RLKeys, from \in 0..MaxTime : AllowedInSpan(key, from) <= 2 * maxAttempts

\* C22 amended: the same bound for every max >= 1.
C22_BurstBound ==
    maxAttempts >= 1 =>
        \A key \in RLKeys, from \in 0..MaxTime : AllowedInSpan(key, from) <= 2 * maxAttempts

\* C22 witness: the window is not sliding: a time span of length W held more
\* than max allowed calls of one key, the last of one window and the first of
\* the next.
C22_Witness ==
    /\ maxAttempts >= 1
    /\ \E key \in RLKeys, from \in 0..MaxTime :
          /\ AllowedInSpan(key, from) > maxAttempts
          /\ \E i, j \in 1..Len(calls) :
                /\ calls[i].key = key
                /\ calls[j].key = key
                /\ calls[i].t >= from
                /\ calls[j].t <= from + WindowMs
                /\ calls[i].resetTime < calls[j].resetTime

\* the earlier allowed calls of the key of call j in the window of call j
AllowedBefore(j) ==
    Cardinality({i \in 1..(j - 1) : /\ calls[i].key = calls[j].key
                                    /\ calls[i].resetTime = calls[j].resetTime
                                    /\ calls[i].allowed})

\* C23: a call on key k changes the counter of no other key and its result
\* is the one the counter of k alone gives; a call is denied only after max
\* (and at least one) allowed calls of its own ip:path key in the window, so
\* the calls of another path or another IP never deny it.
C23_OnlyOwnCounter ==
    /\ [][\A key \in RLKeys :
            CallStepOn(key) =>
               /\ \A k \in RLKeys \ {key} :
                     /\ k \in DOMAIN rateLimitStore' <=> k \in DOMAIN rateLimitStore
                     /\ k \in DOMAIN rateLimitStore =>
                            rateLimitStore'[k] = rateLimitStore[k]
               /\ calls'[Len(calls')].allowed =
                     checkRateLimit([k \in DOMAIN rateLimitStore \cap {key} |->
                                        rateLimitStore[k]],
                                    key, maxAttempts, now)]_vars
    /\ [](\A j \in 1..Len(calls) :
            ~calls[j].allowed =>
               /\ AllowedBefore(j) >= maxAttempts
               /\ AllowedBefore(j) >= 1)

\* C23 witness: after a login call of ip1 was denied, a signup call of ip1
\* and a login call of ip2 were allowed while that window was still running.
C23_Witness ==
    \E i, j, k \in 1..Len(calls) :
        /\ i < j
        /\ i < k
        /\ calls[i].key = "ip1:/auth/login"
        /\ ~calls[i].allowed
        /\ calls[j].key = "ip1:/auth/signup"
        /\ calls[j].allowed
        /\ calls[j].t <= calls[i].resetTime
        /\ calls[k].key = "ip2:/auth/login"
        /\ calls[k].allowed
        /\ calls[k].t <= calls[i].resetTime

(***************************************************************************)
(* C24: rename on an existing entry                                        *)
(***************************************************************************)
\* C24: a rename of an existing entry writes back and returns a value with
\* the new title, the date, wordCount and duration the entry had, and the
\* content sanitizeHtml makes of the stored content; no other key changes
\* and the entry of the response is the value stored.
C24_RenameChangesTitle ==
    (/\ lastReq.route = "rename"
     /\ IsAuthentic(lastReq.header)
     /\ KeyOf(lastReq, lastReq.date) \in DOMAIN prevStore) =>
        LET key == KeyOf(lastReq, lastReq.date)
            old == prevStore[key]
        IN /\ resp.status = 200
           /\ key \in DOMAIN kvStore
           /\ kvStore[key] = [date |-> old.date,
                              content |-> sanitizeHtml(old.content),
                              title |-> lastReq.title,
                              wordCount |-> old.wordCount,
                              duration |-> old.duration]
           /\ resp.entry = kvStore[key]
           /\ SameExceptAt(key)

\* C24 witness: a rename gave a title to an entry that had none, its stored
\* content was one the sanitizer still changes, and another entry was in the
\* store.
C24_Witness ==
    /\ lastReq.route = "rename"
    /\ resp.status = 200
    /\ LET key == KeyOf(lastReq, lastReq.date)
       IN /\ key \in DOMAIN prevStore
          /\ prevStore[key].title # kvStore[key].title
          /\ prevStore[key].content # kvStore[key].content
          /\ \E k \in DOMAIN kvStore : k # key

(***************************************************************************)
(* C25: required fields missing from the body                              *)
(***************************************************************************)
\* C25: a signup without email, password or name and a login without email
\* or password are answered with HTTP 400 and make no identity-provider
\* call.
C25_MissingFieldsAre400 ==
    (lastReq.route \in AuthEndpoints /\ lastReq.case \in {"nullBody", "missing"}) =>
        /\ resp.status = 400
        /\ idpCall = "none"

\* what does hold: such a request makes no identity-provider call, and is
\* answered with 400 when its body is an object, unless the gate answered
\* with 429
C25_NoCallAnd400BehindGate ==
    (lastReq.route \in AuthEndpoints /\ lastReq.case \in {"nullBody", "missing"}) =>
        /\ idpCall = "none"
        /\ \/ resp.status = 429
           \/ resp.status = IF lastReq.case = "nullBody" THEN 500 ELSE 400

(***************************************************************************)
(* C28: what /ai/prompt charges to the daily count                         *)
(***************************************************************************)
\* the prompt count a store holds at key, 0 when it holds none
CountAt(store, key) == IF key \in DOMAIN store THEN store[key].count ELSE 0

\* C28: a /ai/prompt request that does not return a prompt (failed
\* verification, 429, 503, an error of the completion API, an exception)
\* leaves the store as it was; one that returns a prompt adds exactly 1 to
\* the caller's count of the day and changes nothing else.
C28_QuotaOnlyOnSuccess ==
    lastReq.route = "ai" =>
        IF resp.status = 200
        THEN LET key == AiKey(CallerOf(lastReq), lastReq.t)
             IN /\ CountAt(kvStore, key) = CountAt(prevStore, key) + 1
                /\ SameExceptAt(key)
        ELSE /\ resp.status \in {429, 500, 503}
             /\ kvStore = prevStore

\* C28 witness: the completion API was called for a user who had been given
\* two prompts that day and reported an error; the count stayed at 2.
C28_Witness ==
    /\ lastReq.route = "ai"
    /\ resp.status = 500
    /\ llmCalled
    /\ CountAt(kvStore, AiKey(CallerOf(lastReq), lastReq.t)) = 2
    /\ kvStore = prevStore

\* C28, second case: a prompt was returned and the count went from 2 to 3.
C28_Charged ==
    /\ lastReq.route = "ai"
    /\ resp.status = 200
    /\ CountAt(prevStore, AiKey(CallerOf(lastReq), lastReq.t)) = 2
    /\ CountAt(kvStore, AiKey(CallerOf(lastReq), lastReq.t)) = 3

(***************************************************************************)
(* C27: /ai/prompt requests that overlap                                   *)
(***************************************************************************)
\* C27: even when /ai/prompt requests of one user overlap, no user is given
\* more than 3 prompts on one day, and the stored count of a user equals the
\* number of prompts returned to the user that day.
C27_NoLostUpdate ==
    \A who \in DOMAIN given :
        /\ given[who] <= 3
        /\ CountAt(kvStore, AiKey(who[1], now)) = given[who]

\* what overlapping requests do: four prompts were returned to one user on
\* one day
C27_FourPrompts ==
    \E who \in DOMAIN given : given[who] >= 4

(***************************************************************************)
(* C30: deleteEntry in JournalHistory                                      *)
(***************************************************************************)
Shown(entries) == {entries[i] : i \in 1..Len(entries)}

\* C30: after a confirmed deleteEntry(date) and the reload it starts, the
\* entry with that date is not displayed any more and the other entries are
\* the ones displayed before, whichever source the entries come from
C30_DeletedEntryGone ==
    journal.deleted # <<>> =>
        /\ journal.deleted \notin Shown(journal.entries)
        /\ Shown(journal.entries) = Shown(journal.shownBefore) \ {journal.deleted}

\* the same, for a reload that ends at localStorage
C30_GoneWhenReloadedLocally ==
    (journal.deleted # <<>> /\ journal.source = "local") =>
        /\ journal.deleted \notin Shown(journal.entries)
        /\ Shown(journal.entries) = Shown(journal.shownBefore) \ {journal.deleted}

(***************************************************************************)
(* C26: the timer of a journaling session                                  *)
(***************************************************************************)
\* C26: once a session is started timeRemaining stays within
\* 0..sessionDuration, changes only by going down by one, and does not change
\* while the timer is paused; a session the timer ended has timeRemaining 0,
\* isTimerActive false, sessionEnded true and a call of saveEntryToCloud
\* behind it; and a running timer that the user neither pauses, ends nor
\* leaves does reach that end
C26_TimerRunsDown ==
    /\ [](journal.sessionDuration # 0 =>
            /\ 0 <= journal.timeRemaining
            /\ journal.timeRemaining <= journal.sessionDuration)
    /\ [][(journal.sessionDuration # 0 /\ journal'.timeRemaining # journal.timeRemaining)
            => /\ journal.isTimerActive
               /\ journal'.timeRemaining = journal.timeRemaining - 1]_vars
    /\ [](journal.endedBy = "timer" =>
            /\ journal.timeRemaining = 0
            /\ ~journal.isTimerActive
            /\ journal.sessionEnded
            /\ journal.saveCalls >= 1)
    /\ (journal.isTimerActive /\ journal.timeRemaining > 0)
           ~> (journal.endedBy = "timer" \/ ~journal.isTimerActive)

\* the timer was left running and ended the session
C26_Witness ==
    /\ journal.endedBy = "timer"
    /\ journal.sessionDuration = SecondsPerMinute
    /\ journal.timeRemaining = 0
    /\ journal.sessionEnded
    /\ journal.saveCalls = 1

(***************************************************************************)
(* C29: the local backup of saveEntryToCloud                               *)
(***************************************************************************)
\* the entries this session added to journalEntries_a
Appended ==
    SelectSeq(storedEntries(localStorage, "journalEntries_a"),
              LAMBDA e : e # "an earlier night")

\* C29: when a session has ended and its save has settled, exactly one entry
\* was appended to journalEntries_<userId> if the content is not blank,
\* whatever the cloud answered, and none if the content is blank
C29_LocalBackup ==
    (journal.sessionEnded /\ journal.pending = <<>>) =>
        Len(Appended) = IF BlankText(journal.journalContent) THEN 0 ELSE 1

\* the same for the sessions the user ended with the end button, and the
\* entry holds the content of the editor
C29_BackupWhenEndedByUser ==
    (journal.endedBy = "user" /\ journal.pending = <<>>) =>
        Appended = IF BlankText(journal.journalContent) THEN <<>>
                   ELSE <<journal.journalContent>>

====
